---- MODULE Spec2Model ----
(***************************************************************************)
(* Model of the C++ class code generator (CGClass.cpp): constructor        *)
(* prologue, destructor epilogue, base-class address adjustment and        *)
(* vtable-pointer installation, over a small fixed class hierarchy.        *)
(* The code generator is a set of pure emitters; the emitted code is a     *)
(* sequence of events, and the run-time meaning of that code (nested       *)
(* constructor calls, unwinding) is obtained by executing the events.      *)
(* The byref helper caches of CGBlocks.cpp and the late-parsed default     *)
(* arguments of ParseDeclCXX.cpp have specifications of their own.         *)
(***************************************************************************)
EXTENDS Integers, Sequences, FiniteSets, TLC

(***************************************************************************)
(* The class hierarchy (the validated AST handed over by Sema).            *)
(*   W                  plain leaf                                         *)
(*   V : W              polymorphic, user destructor                       *)
(*   A : virtual V      fields a1 : T, a2 : int                            *)
(*   B : virtual V                                                         *)
(*   Diamond : A, B     field d1 : T                                       *)
(*   P, Q               leaves (P polymorphic with user destructor)        *)
(*   Plain : P, Q       fields f0 : T, f1 : U, f2 : T[ArrayLen]            *)
(*   T, U               field classes (T has a user destructor)            *)
(*   Multi : virtual V, virtual Q, virtual P      field m1 : T             *)
(*   Outer : P, A                                                          *)
(*   Top : virtual A                                                       *)
(*   Mid : P                                                               *)
(*   Twice : Mid, P     P is a direct base and a base of Mid               *)
(*   Deep : virtual Twice                                                  *)
(*   Middle : P         with a field i1                                    *)
(*   Derived : Middle   with fields e1, e2 (three levels, fields at two)   *)
(*   Kinds              fields r : int&, z : _Complex, s : int,            *)
(*                      n : T[ArrayLen]                                    *)
(*   VQ : virtual Q                                                        *)
(*   Both : Q, VQ       Q is a direct base and a virtual base of VQ        *)
(***************************************************************************)
Classes ==
  {"W", "V", "A", "B", "Diamond", "P", "Q", "Plain", "T", "U", "Multi", "Outer",
   "Top", "Mid", "Twice", "Deep", "Middle", "Derived",
   "Kinds", "VQ", "Both"}

\* Number of elements of the array field Plain::f2.
ArrayLen == 2

\* Largest pointer value handed to the address adjusters (0 is null).
MaxPtr == 2

\* Largest virtual-base offset (in bytes) a vtable slot may hold at run time.
MaxVBaseOffset == 2

BaseSpec(t, v) == [type |-> t, isVirtual |-> v]

\* CXXRecordDecl::bases_begin() .. bases_end(): the base-specifier list.
Bases ==
  [c \in Classes |->
     CASE c = "V"       -> <<BaseSpec("W", FALSE)>>
       [] c = "A"       -> <<BaseSpec("V", TRUE)>>
       [] c = "B"       -> <<BaseSpec("V", TRUE)>>
       [] c = "Diamond" -> <<BaseSpec("A", FALSE), BaseSpec("B", FALSE)>>
       [] c = "Plain"   -> <<BaseSpec("P", FALSE), BaseSpec("Q", FALSE)>>
       [] c = "Multi"   -> <<BaseSpec("V", TRUE), BaseSpec("Q", TRUE),
                             BaseSpec("P", TRUE)>>
       [] c = "Outer"   -> <<BaseSpec("P", FALSE), BaseSpec("A", FALSE)>>
       [] c = "Top"     -> <<BaseSpec("A", TRUE)>>
       [] c = "Mid"     -> <<BaseSpec("P", FALSE)>>
       [] c = "Twice"   -> <<BaseSpec("Mid", FALSE), BaseSpec("P", FALSE)>>
       [] c = "Deep"    -> <<BaseSpec("Twice", TRUE)>>
       [] c = "Middle"  -> <<BaseSpec("P", FALSE)>>
       [] c = "Derived" -> <<BaseSpec("Middle", FALSE)>>
       [] c = "VQ"      -> <<BaseSpec("Q", TRUE)>>
       [] c = "Both"    -> <<BaseSpec("Q", FALSE), BaseSpec("VQ", FALSE)>>
       [] OTHER         -> <<>>]

FieldDecl(n, k, c, cnt) == [name |-> n, kind |-> k, cls |-> c, count |-> cnt]

\* CXXRecordDecl::field_begin() .. field_end(): the fields in declaration
\* order.  kind is the field's type: "record" (class cls), "array" (count
\* elements of class cls), "scalar", "reference" or "complex".
Fields ==
  [c \in Classes |->
     CASE c = "A"       -> <<FieldDecl("a1", "record", "T", 1),
                             FieldDecl("a2", "scalar", "-", 1)>>
       [] c = "Diamond" -> <<FieldDecl("d1", "record", "T", 1)>>
       [] c = "Plain"   -> <<FieldDecl("f0", "record", "T", 1),
                             FieldDecl("f1", "record", "U", 1),
                             FieldDecl("f2", "array", "T", ArrayLen)>>
       [] c = "Multi"   -> <<FieldDecl("m1", "record", "T", 1)>>
       [] c = "Middle"  -> <<FieldDecl("i1", "scalar", "-", 1)>>
       [] c = "Kinds"   -> <<FieldDecl("r", "reference", "-", 1),
                             FieldDecl("z", "complex", "-", 1),
                             FieldDecl("s", "scalar", "-", 1),
                             FieldDecl("n", "array", "T", ArrayLen)>>
       [] c = "Derived" -> <<FieldDecl("e1", "scalar", "-", 1),
                             FieldDecl("e2", "record", "T", 1)>>
       [] OTHER         -> <<>>]

\* Classes with a user-declared destructor.
UserDtor == {"V", "P", "T"}

\* Classes that declare a virtual function of their own.
OwnVirtual == {"V", "P"}

Range(s) == {s[i] : i \in 1..Len(s)}

Reverse(s) == [i \in 1..Len(s) |-> s[Len(s) + 1 - i]]

RECURSIVE Flatten(_)
Flatten(ss) == IF ss = <<>> THEN <<>> ELSE Head(ss) \o Flatten(Tail(ss))

\* Appends to s the elements of t that s does not hold yet, in t's order.
RECURSIVE AppendNew(_, _)
AppendNew(s, t) ==
  IF t = <<>> THEN s
  ELSE AppendNew(IF Head(t) \in Range(s) THEN s ELSE Append(s, Head(t)),
                 Tail(t))

\* CXXRecordDecl::vbases_begin() .. vbases_end(): every virtual base, direct
\* or indirect, once.
RECURSIVE VBases(_)
RECURSIVE VBasesFrom(_, _, _)
VBasesFrom(c, i, acc) ==
  IF i > Len(Bases[c]) THEN acc
  ELSE LET b == Bases[c][i]
           inherited == AppendNew(acc, VBases(b.type))
       IN VBasesFrom(c, i + 1,
                     IF b.isVirtual THEN AppendNew(inherited, <<b.type>>)
                     ELSE inherited)
VBases(c) == VBasesFrom(c, 1, <<>>)

\* The element class of a field of class or array-of-class type, "-" else.
\* ASTContext::getBaseElementType followed by getAs<RecordType>.
BaseElementClass(f) == IF f.kind \in {"record", "array"} THEN f.cls ELSE "-"

\* CXXRecordDecl::hasTrivialDestructor: no user-declared destructor, and
\* every direct base and every field of class type is trivially destructible.
RECURSIVE hasTrivialDestructor(_)
hasTrivialDestructor(c) ==
  /\ c \notin UserDtor
  /\ \A i \in 1..Len(Bases[c]) : hasTrivialDestructor(Bases[c][i].type)
  /\ \A i \in 1..Len(Fields[c]) :
       BaseElementClass(Fields[c][i]) # "-" =>
         hasTrivialDestructor(BaseElementClass(Fields[c][i]))

\* CXXRecordDecl::isPolymorphic and isDynamicClass.
RECURSIVE isPolymorphic(_)
isPolymorphic(c) ==
  \/ c \in OwnVirtual
  \/ \E i \in 1..Len(Bases[c]) : isPolymorphic(Bases[c][i].type)

isDynamicClass(c) == isPolymorphic(c) \/ VBases(c) # <<>>

\* ASTRecordLayout::getBaseClassOffset, in bits: the offset of a direct
\* non-virtual base inside its derived class.
getBaseClassOffset(c, b) ==
  CASE c = "V" /\ b = "W"       -> 64
    [] c = "Diamond" /\ b = "A" -> 0
    [] c = "Diamond" /\ b = "B" -> 192
    [] c = "Plain" /\ b = "P"   -> 0
    [] c = "Plain" /\ b = "Q"   -> 64
    [] c = "Outer" /\ b = "P"   -> 0
    [] c = "Outer" /\ b = "A"   -> 64
    [] c = "Mid" /\ b = "P"     -> 0
    [] c = "Twice" /\ b = "Mid" -> 0
    [] c = "Twice" /\ b = "P"   -> 64
    [] c = "Middle" /\ b = "P"  -> 0
    [] c = "Derived" /\ b = "Middle" -> 0
    [] c = "Both" /\ b = "Q"    -> 64
    [] c = "Both" /\ b = "VQ"   -> 0
    [] OTHER                    -> 0

\* ASTRecordLayout::getVBaseClassOffset, in bits: the offset of a virtual
\* base inside the complete object of class c.
getVBaseClassOffset(c, b) ==
  CASE c = "A" /\ b = "V"       -> 192
    [] c = "B" /\ b = "V"       -> 64
    [] c = "Diamond" /\ b = "V" -> 320
    [] c = "Multi" /\ b = "V"   -> 128
    [] c = "Multi" /\ b = "Q"   -> 256
    [] c = "Multi" /\ b = "P"   -> 320
    [] c = "Outer" /\ b = "V"   -> 256
    [] c = "Top" /\ b = "V"     -> 64
    [] c = "Top" /\ b = "A"     -> 128
    [] c = "Deep" /\ b = "Twice" -> 64
    [] c = "VQ" /\ b = "Q"      -> 64
    [] c = "Both" /\ b = "Q"    -> 128
    [] OTHER                    -> 0

(***************************************************************************)
(* Emitted code: a sequence of events.                                     *)
(***************************************************************************)
Ev(op, sub, cls, how, off, virt) ==
  [op |-> op, sub |-> sub, cls |-> cls, how |-> how, off |-> off,
   virt |-> virt]

\* A CXXBaseOrMemberInitializer: a base initializer names a base class, a
\* member initializer names a field; hasInit is getInit() != 0.
BaseInitializer(b) == [isBase |-> TRUE, target |-> b, hasInit |-> TRUE]
MemberInitializer(f, h) == [isBase |-> FALSE, target |-> f, hasInit |-> h]

DirectNonVirtualBases(c) ==
  SelectSeq(Bases[c], LAMBDA BS : ~BS.isVirtual)

\* The initializer list Sema builds when the constructor names nothing:
\* virtual bases, direct non-virtual bases, fields, each in declaration order.
SemaOrder(c) ==
  [i \in 1..Len(VBases(c)) |-> BaseInitializer(VBases(c)[i])]
  \o [i \in 1..Len(DirectNonVirtualBases(c)) |->
        BaseInitializer(DirectNonVirtualBases(c)[i].type)]
  \o [i \in 1..Len(Fields[c]) |-> MemberInitializer(Fields[c][i].name, TRUE)]

FieldNamed(c, n) ==
  Fields[c][CHOOSE i \in 1..Len(Fields[c]) : Fields[c][i].name = n]

\* CodeGenFunction::hasAggregateLLVMType: class, array and complex types are
\* not scalars.
hasAggregateLLVMType(kind) == kind \in {"record", "array", "complex"}

\* An address computation that takes the non-virtual layout offset for
\* every base.
GetAddressOfBaseOfCompleteClass_NonVirtualOnly(isBaseVirtual, Derived, Base) ==
  getBaseClassOffset(Derived, Base) \div 8

\* GetAddressOfBaseOfCompleteClass: the byte offset added to 'this' to reach
\* Base inside a complete object of class Derived.
GetAddressOfBaseOfCompleteClass(isBaseVirtual, Derived, Base) ==
  LET Offset == IF isBaseVirtual THEN getVBaseClassOffset(Derived, Base)
                ELSE getBaseClassOffset(Derived, Base)
  IN IF Offset # 0 THEN Offset \div 8 ELSE 0

\* A base initializer that the base-object variant emits for virtual bases
\* as well.
EmitBaseInitializer_NoSkip(ClassDecl, BaseInit, CtorType, Exc) ==
  LET BaseClassDecl == BaseInit.target
      isBaseVirtual == BaseClassDecl \in Range(VBases(ClassDecl))
      V == GetAddressOfBaseOfCompleteClass(isBaseVirtual, ClassDecl,
                                           BaseClassDecl)
  IN <<Ev("init.base", BaseClassDecl, BaseClassDecl, "agg", V, isBaseVirtual)>>
     \o (IF Exc /\ ~hasTrivialDestructor(BaseClassDecl)
         THEN <<Ev("cleanup", BaseClassDecl, BaseClassDecl, "Dtor_Base", V,
                   isBaseVirtual)>>
         ELSE <<>>)

\* A base initializer that no variant emits for a virtual base.
EmitBaseInitializer_SkipVirtual(ClassDecl, BaseInit, CtorType, Exc) ==
  LET BaseClassDecl == BaseInit.target
      isBaseVirtual == BaseClassDecl \in Range(VBases(ClassDecl))
      V == GetAddressOfBaseOfCompleteClass(isBaseVirtual, ClassDecl,
                                           BaseClassDecl)
  IN IF isBaseVirtual THEN <<>>
     ELSE <<Ev("init.base", BaseClassDecl, BaseClassDecl, "agg", V, FALSE)>>
          \o (IF Exc /\ ~hasTrivialDestructor(BaseClassDecl)
              THEN <<Ev("cleanup", BaseClassDecl, BaseClassDecl, "Dtor_Base",
                        V, FALSE)>>
              ELSE <<>>)

\* EmitBaseInitializer: the code emitted for one base initializer.
EmitBaseInitializer(ClassDecl, BaseInit, CtorType, Exc) ==
  LET BaseClassDecl == BaseInit.target
      isBaseVirtual == BaseClassDecl \in Range(VBases(ClassDecl))
      V == GetAddressOfBaseOfCompleteClass(isBaseVirtual, ClassDecl,
                                           BaseClassDecl)
  IN IF CtorType = "Ctor_Base" /\ isBaseVirtual THEN <<>>
     ELSE <<Ev("init.base", BaseClassDecl, BaseClassDecl, "agg", V,
               isBaseVirtual)>>
          \o (IF Exc /\ ~hasTrivialDestructor(BaseClassDecl)
              THEN <<Ev("cleanup", BaseClassDecl, BaseClassDecl, "Dtor_Base",
                        V, isBaseVirtual)>>
              ELSE <<>>)

\* A member initializer that tests for a scalar type first.
EmitMemberInitializer_ScalarFirst(ClassDecl, MemberInit, Exc) ==
  LET Field == FieldNamed(ClassDecl, MemberInit.target)
      Init(how) == Ev("init.member", Field.name, BaseElementClass(Field), how, 0,
                      FALSE)
  IN IF ~hasAggregateLLVMType(Field.kind) THEN <<Init("store")>>
     ELSE IF Field.kind = "reference" THEN <<Init("bind")>>
     ELSE IF Field.kind = "array" /\ ~MemberInit.hasInit THEN <<Init("zero")>>
     ELSE IF Field.kind = "complex" THEN <<Init("complex")>>
     ELSE <<Init("agg")>>
          \o (IF /\ Exc
                 /\ Field.kind = "record"
                 /\ ~hasTrivialDestructor(Field.cls)
              THEN <<Ev("cleanup", Field.name, Field.cls, "Dtor_Complete", 0,
                        FALSE)>>
              ELSE <<>>)

\* EmitMemberInitializer: the code emitted for one member initializer.
EmitMemberInitializer(ClassDecl, MemberInit, Exc) ==
  LET Field == FieldNamed(ClassDecl, MemberInit.target)
      Init(how) == Ev("init.member", Field.name, BaseElementClass(Field), how, 0,
                      FALSE)
  IN IF Field.kind = "reference" THEN <<Init("bind")>>
     ELSE IF Field.kind = "array" /\ ~MemberInit.hasInit THEN <<Init("zero")>>
     ELSE IF ~hasAggregateLLVMType(Field.kind) THEN <<Init("store")>>
     ELSE IF Field.kind = "complex" THEN <<Init("complex")>>
     ELSE <<Init("agg")>>
          \o (IF /\ Exc
                 /\ Field.kind = "record"
                 /\ ~hasTrivialDestructor(Field.cls)
              THEN <<Ev("cleanup", Field.name, Field.cls, "Dtor_Complete", 0,
                        FALSE)>>
              ELSE <<>>)

\* InitializeVtablePtrsRecursive: the vtable-pointer stores for the
\* non-virtual hierarchy of ClassDecl placed at Offset (in bits).
RECURSIVE InitializeVtablePtrsRecursive(_, _)
InitializeVtablePtrsRecursive(ClassDecl, Offset) ==
  IF ~isDynamicClass(ClassDecl) THEN <<>>
  ELSE Flatten([i \in 1..Len(Bases[ClassDecl]) |->
                  LET Base == Bases[ClassDecl][i]
                  IN IF Base.isVirtual THEN <<>>
                     ELSE InitializeVtablePtrsRecursive(
                            Base.type,
                            Offset + getBaseClassOffset(ClassDecl, Base.type))])
       \o <<Ev("store", ClassDecl, ClassDecl, "AddressPoint", Offset \div 8,
               FALSE)>>

\* InitializeVtablePtrs: the stores for every virtual base, then for the
\* class's own non-virtual hierarchy.
InitializeVtablePtrs(ClassDecl) ==
  IF ~isDynamicClass(ClassDecl) THEN <<>>
  ELSE Flatten([i \in 1..Len(VBases(ClassDecl)) |->
                  InitializeVtablePtrsRecursive(
                    VBases(ClassDecl)[i],
                    getVBaseClassOffset(ClassDecl, VBases(ClassDecl)[i]))])
       \o InitializeVtablePtrsRecursive(ClassDecl, 0)

\* The first loop of EmitCtorPrologue: base initializers are emitted as they
\* are met, member initializers are pushed on MemberInitializers.
RECURSIVE CtorBaseLoop(_, _, _, _)
CtorBaseLoop(ClassDecl, Inits, CtorType, Exc) ==
  IF Inits = <<>> THEN [code |-> <<>>, MemberInitializers |-> <<>>]
  ELSE LET Member == Head(Inits)
           rest == CtorBaseLoop(ClassDecl, Tail(Inits), CtorType, Exc)
       IN IF Member.isBase
          THEN [code |-> EmitBaseInitializer(ClassDecl, Member, CtorType, Exc)
                         \o rest.code,
                MemberInitializers |-> rest.MemberInitializers]
          ELSE [code |-> rest.code,
                MemberInitializers |-> <<Member>> \o rest.MemberInitializers]

\* A prologue that first puts the initializer list in declaration order
\* (virtual bases, base-specifier list, fields).
EmitCtorPrologue_DeclarationOrder(ClassDecl, Inits, CtorType, Exc) ==
  LET sorted == SelectSeq(SemaOrder(ClassDecl),
                          LAMBDA I : \E k \in 1..Len(Inits) :
                                       Inits[k].target = I.target)
      first == CtorBaseLoop(ClassDecl, sorted, CtorType, Exc)
  IN first.code
     \o <<Ev("vtable", ClassDecl, ClassDecl, "InitializeVtablePtrs", 0, FALSE)>>
     \o InitializeVtablePtrs(ClassDecl)
     \o Flatten([I \in 1..Len(first.MemberInitializers) |->
                   EmitMemberInitializer(ClassDecl,
                                         first.MemberInitializers[I], Exc)])

\* A prologue that emits the initializers of virtual bases before all others.
EmitCtorPrologue_VirtualBasesFirst(ClassDecl, Inits, CtorType, Exc) ==
  LET isV(I) == I.isBase /\ I.target \in Range(VBases(ClassDecl))
      first == CtorBaseLoop(ClassDecl,
                            SelectSeq(Inits, isV)
                            \o SelectSeq(Inits, LAMBDA I : ~isV(I)),
                            CtorType, Exc)
  IN first.code
     \o <<Ev("vtable", ClassDecl, ClassDecl, "InitializeVtablePtrs", 0, FALSE)>>
     \o InitializeVtablePtrs(ClassDecl)
     \o Flatten([I \in 1..Len(first.MemberInitializers) |->
                   EmitMemberInitializer(ClassDecl,
                                         first.MemberInitializers[I], Exc)])

\* A prologue that emits every initializer where the list names it and
\* installs the vtable pointers last.
EmitCtorPrologue_InListOrder(ClassDecl, Inits, CtorType, Exc) ==
  Flatten([i \in 1..Len(Inits) |->
             IF Inits[i].isBase
             THEN EmitBaseInitializer(ClassDecl, Inits[i], CtorType, Exc)
             ELSE EmitMemberInitializer(ClassDecl, Inits[i], Exc)])
  \o <<Ev("vtable", ClassDecl, ClassDecl, "InitializeVtablePtrs", 0, FALSE)>>
  \o InitializeVtablePtrs(ClassDecl)

\* A prologue that takes the member initializers set aside from the back.
EmitCtorPrologue_MembersFromBack(ClassDecl, Inits, CtorType, Exc) ==
  LET first == CtorBaseLoop(ClassDecl, Inits, CtorType, Exc)
  IN first.code
     \o <<Ev("vtable", ClassDecl, ClassDecl, "InitializeVtablePtrs", 0, FALSE)>>
     \o InitializeVtablePtrs(ClassDecl)
     \o Flatten([I \in 1..Len(first.MemberInitializers) |->
                   EmitMemberInitializer(
                     ClassDecl,
                     first.MemberInitializers[
                       Len(first.MemberInitializers) + 1 - I], Exc)])

\* A prologue whose base-object variant leaves the vtable pointers of the
\* virtual bases alone.
EmitCtorPrologue_OwnStoresInBaseVariant(ClassDecl, Inits, CtorType, Exc) ==
  LET first == CtorBaseLoop(ClassDecl, Inits, CtorType, Exc)
  IN first.code
     \o <<Ev("vtable", ClassDecl, ClassDecl, "InitializeVtablePtrs", 0, FALSE)>>
     \o (IF CtorType = "Ctor_Base"
         THEN InitializeVtablePtrsRecursive(ClassDecl, 0)
         ELSE InitializeVtablePtrs(ClassDecl))
     \o Flatten([I \in 1..Len(first.MemberInitializers) |->
                   EmitMemberInitializer(ClassDecl,
                                         first.MemberInitializers[I], Exc)])

\* EmitCtorPrologue: base initializers, InitializeVtablePtrs, then the
\* member initializers that were set aside.
EmitCtorPrologue(ClassDecl, Inits, CtorType, Exc) ==
  LET first == CtorBaseLoop(ClassDecl, Inits, CtorType, Exc)
  IN first.code
     \o <<Ev("vtable", ClassDecl, ClassDecl, "InitializeVtablePtrs", 0, FALSE)>>
     \o InitializeVtablePtrs(ClassDecl)
     \o Flatten([I \in 1..Len(first.MemberInitializers) |->
                   EmitMemberInitializer(ClassDecl,
                                         first.MemberInitializers[I], Exc)])

\* A collection loop that keeps every field of class type.
FieldDecls_KeepTrivial(ClassDecl) ==
  SelectSeq(Fields[ClassDecl], LAMBDA Field : BaseElementClass(Field) # "-")

\* The fields EmitDtorEpilogue collects: those whose (element) class has a
\* non-trivial destructor, in declaration order.
FieldDecls(ClassDecl) ==
  SelectSeq(Fields[ClassDecl],
            LAMBDA Field : /\ BaseElementClass(Field) # "-"
                           /\ ~hasTrivialDestructor(BaseElementClass(Field)))

\* The destructor call EmitDtorEpilogue emits for one collected field.
EmitFieldDtor(Field) ==
  IF Field.kind = "array"
  THEN Ev("dtor", Field.name, Field.cls, "EmitCXXAggrDestructorCall", 0, FALSE)
  ELSE Ev("dtor", Field.name, Field.cls, "Dtor_Complete", 0, FALSE)

\* CXXRecordDecl::isDerivedFrom(Base, Paths) with RecordPaths: Paths.front()
\* is the first path of the depth-first walk over the base specifiers, each
\* element being (the class that has the specifier, the specifier).  <<>> when
\* Base is no base of Class.
RECURSIVE FrontPathFrom(_, _, _)
FrontPathFrom(Class, BaseClass, i) ==
  IF i > Len(Bases[Class]) THEN <<>>
  ELSE LET BS == Bases[Class][i]
           Element == [Class |-> Class, Base |-> BS]
           below == FrontPathFrom(BS.type, BaseClass, 1)
       IN IF BS.type = BaseClass THEN <<Element>>
          ELSE IF below # <<>> THEN <<Element>> \o below
          ELSE FrontPathFrom(Class, BaseClass, i + 1)

FrontPath(Class, BaseClass) == FrontPathFrom(Class, BaseClass, 1)

\* ComputeNonVirtualBaseClassOffset: the sum, in bytes, of the base offsets of
\* Path[Start..] (Start counts from 0 as in the code).
RECURSIVE ComputeNonVirtualBaseClassOffset(_, _)
ComputeNonVirtualBaseClassOffset(Path, Start) ==
  IF Start >= Len(Path) THEN 0
  ELSE LET Element == Path[Start + 1]
       IN (getBaseClassOffset(Element.Class, Element.Base.type) \div 8)
          + ComputeNonVirtualBaseClassOffset(Path, Start + 1)

\* A loop that keeps the first virtual element of the path it meets.
RECURSIVE LastVirtual_KeepFirst(_, _, _)
LastVirtual_KeepFirst(Path, i, acc) ==
  IF i >= Len(Path) THEN acc
  ELSE LastVirtual_KeepFirst(Path, i + 1,
                             IF Path[i + 1].Base.isVirtual /\ acc.VBase = "-"
                             THEN [Start |-> i + 1,
                                   VBase |-> Path[i + 1].Base.type]
                             ELSE acc)

\* The loop of GetAddressOfBaseClass over the path: Start ends up one past
\* the last virtual element and VBase is that element's base ("-" if none).
RECURSIVE LastVirtual(_, _, _)
LastVirtual(Path, i, acc) ==
  IF i >= Len(Path) THEN acc
  ELSE LastVirtual(Path, i + 1,
                   IF Path[i + 1].Base.isVirtual
                   THEN [Start |-> i + 1, VBase |-> Path[i + 1].Base.type]
                   ELSE acc)

\* The offsets GetAddressOfBaseClass computes at compile time for a proper
\* base: the constant Offset and the virtual base whose offset is loaded.
BaseClassAdjustment(Class, BaseClass) ==
  LET Path == FrontPath(Class, BaseClass)
      lv == LastVirtual(Path, 0, [Start |-> 0, VBase |-> "-"])
  IN [Offset |-> ComputeNonVirtualBaseClassOffset(Path, lv.Start),
      VBase |-> lv.VBase]

\* GetVirtualBaseClassOffset: the offset loaded at run time from the vtable
\* of the object, at the slot getVirtualBaseOffsetIndex(ClassDecl,
\* BaseClassDecl); VTable holds the object's slots by virtual base.
GetVirtualBaseClassOffset(VTable, ClassDecl, BaseClassDecl) ==
  VTable[BaseClassDecl]

\* GetAddressOfBaseClass: the pointer the emitted code yields at run time for
\* the input pointer Value to an object whose vtable is VTable.
GetAddressOfBaseClass(Value, Class, BaseClass, NullCheckValue, VTable) ==
  IF Class = BaseClass THEN Value
  ELSE LET adj == BaseClassAdjustment(Class, BaseClass)
           VBaseOffset ==
             GetVirtualBaseClassOffset(VTable, Class, adj.VBase)
           BaseOffset == IF adj.VBase # "-"
                         THEN (IF adj.Offset # 0
                               THEN VBaseOffset + adj.Offset
                               ELSE VBaseOffset)
                         ELSE adj.Offset
       IN IF adj.Offset = 0 /\ adj.VBase = "-" THEN Value
          ELSE IF NullCheckValue /\ Value = 0 THEN 0
          ELSE Value + BaseOffset

\* Pointer-sized integer arithmetic is modular; the model keeps 16 bits.
PointerModulus == 2 ^ 16

\* An offset computation that accepts virtual bases.
SeesVirtualBase_Never(Path, Start) == FALSE

\* The assertion in the loop of ComputeNonVirtualBaseClassOffset fails: an
\* element of Path[Start..] is a virtual base specifier.
SeesVirtualBase(Path, Start) ==
  \E i \in (Start + 1)..Len(Path) : Path[i].Base.isVirtual

\* CodeGenModule::GetNonVirtualBaseClassOffset: the constant offset of
\* BaseClass in Class along Paths.front() (Offset 0 stands for the null
\* constant), or a failed assertion.
GetNonVirtualBaseClassOffset(Class, BaseClass) ==
  IF Class = BaseClass THEN [failed |-> FALSE, Offset |-> 0]
  ELSE LET Path == FrontPath(Class, BaseClass)
       IN IF Path = <<>> \/ SeesVirtualBase(Path, 0)
          THEN [failed |-> TRUE, Offset |-> 0]
          ELSE [failed |-> FALSE,
                Offset |-> ComputeNonVirtualBaseClassOffset(Path, 0)]

\* A base-to-derived cast that never tests its input for null.
GetAddressOfDerivedClass_Unchecked(Value, Class, DerivedClass, NullCheckValue) ==
  LET NonVirtualOffset == GetNonVirtualBaseClassOffset(DerivedClass, Class)
  IN [failed |-> NonVirtualOffset.failed,
      result |-> IF NonVirtualOffset.failed THEN 0
                 ELSE (Value - NonVirtualOffset.Offset) % PointerModulus]

\* A base-to-derived cast that moves the pointer the wrong way.
GetAddressOfDerivedClass_Adds(Value, Class, DerivedClass, NullCheckValue) ==
  LET NonVirtualOffset == GetNonVirtualBaseClassOffset(DerivedClass, Class)
  IN [failed |-> NonVirtualOffset.failed,
      result |-> IF NonVirtualOffset.failed THEN 0
                 ELSE IF NullCheckValue /\ Value = 0 THEN 0
                 ELSE (Value + NonVirtualOffset.Offset) % PointerModulus]

\* GetAddressOfDerivedClass: the pointer the emitted code yields at run time
\* for the pointer Value to a Class sub-object of a DerivedClass object.
GetAddressOfDerivedClass(Value, Class, DerivedClass, NullCheckValue) ==
  IF Class = DerivedClass THEN [failed |-> FALSE, result |-> Value]
  ELSE LET NonVirtualOffset == GetNonVirtualBaseClassOffset(DerivedClass, Class)
       IN IF NonVirtualOffset.failed THEN [failed |-> TRUE, result |-> 0]
          ELSE IF NonVirtualOffset.Offset = 0
          THEN [failed |-> FALSE, result |-> Value]
          ELSE IF NullCheckValue /\ Value = 0
          THEN [failed |-> FALSE, result |-> 0]
          ELSE [failed |-> FALSE,
                result |-> (Value - NonVirtualOffset.Offset) % PointerModulus]

\* An epilogue that destroys the collected fields first to last.
EmitDtorEpilogue_ForwardFields(ClassDecl, DtorType) ==
  LET fd == FieldDecls(ClassDecl)
      rb == Reverse(Bases[ClassDecl])
  IN [i \in 1..Len(fd) |-> EmitFieldDtor(fd[i])]
     \o Flatten([i \in 1..Len(rb) |->
                   IF rb[i].isVirtual \/ hasTrivialDestructor(rb[i].type)
                   THEN <<>>
                   ELSE <<Ev("dtor", rb[i].type, rb[i].type, "Dtor_Base",
                             BaseClassAdjustment(ClassDecl, rb[i].type).Offset,
                             FALSE)>>])

\* EmitDtorEpilogue: the code at the end of a destructor variant.
EmitDtorEpilogue(ClassDecl, DtorType) ==
  IF DtorType = "Dtor_Deleting"
  THEN <<Ev("delete", "this", ClassDecl, "EmitDeleteCall", 0, FALSE)>>
  ELSE IF DtorType = "Dtor_Complete"
  THEN LET vb == Reverse(VBases(ClassDecl))
       IN Flatten([i \in 1..Len(vb) |->
                     IF hasTrivialDestructor(vb[i]) THEN <<>>
                     ELSE <<Ev("dtor", vb[i], vb[i], "Dtor_Base",
                               GetAddressOfBaseOfCompleteClass(TRUE, ClassDecl,
                                                               vb[i]),
                               TRUE)>>])
  ELSE LET fd == FieldDecls(ClassDecl)
           rb == Reverse(Bases[ClassDecl])
       IN [i \in 1..Len(fd) |-> EmitFieldDtor(fd[Len(fd) + 1 - i])]
          \o Flatten([i \in 1..Len(rb) |->
                        IF rb[i].isVirtual THEN <<>>
                        ELSE IF hasTrivialDestructor(rb[i].type) THEN <<>>
                        ELSE <<Ev("dtor", rb[i].type, rb[i].type, "Dtor_Base",
                                  BaseClassAdjustment(ClassDecl,
                                                      rb[i].type).Offset,
                                  BaseClassAdjustment(ClassDecl,
                                                      rb[i].type).VBase
                                    # "-")>>])

(***************************************************************************)
(* Implicit copy constructor and copy assignment operator.                 *)
(***************************************************************************)
\* Classes with a user-declared copy constructor / copy assignment operator.
UserCopyCtor == {"T", "V"}
UserCopyAssign == {"T", "V"}

\* CXXRecordDecl::hasTrivialCopyConstructor: no user-declared copy
\* constructor, no virtual function or virtual base, and every direct base
\* and every field of class type trivially copyable.
RECURSIVE hasTrivialCopyConstructor(_)
hasTrivialCopyConstructor(c) ==
  /\ c \notin UserCopyCtor
  /\ ~isDynamicClass(c)
  /\ \A i \in 1..Len(Bases[c]) : hasTrivialCopyConstructor(Bases[c][i].type)
  /\ \A i \in 1..Len(Fields[c]) :
       BaseElementClass(Fields[c][i]) # "-" =>
         hasTrivialCopyConstructor(BaseElementClass(Fields[c][i]))

\* CXXRecordDecl::hasTrivialCopyAssignment, likewise.
RECURSIVE hasTrivialCopyAssignment(_)
hasTrivialCopyAssignment(c) ==
  /\ c \notin UserCopyAssign
  /\ ~isDynamicClass(c)
  /\ \A i \in 1..Len(Bases[c]) : hasTrivialCopyAssignment(Bases[c][i].type)
  /\ \A i \in 1..Len(Fields[c]) :
       BaseElementClass(Fields[c][i]) # "-" =>
         hasTrivialCopyAssignment(BaseElementClass(Fields[c][i]))

\* A GlobalDecl: a constructor or destructor of class RD in variant Type.
GlobalDecl(RD, Type) == [RD |-> RD, Type |-> Type]

\* CGVtableInfo::needsVTTParameter: the base-object variants of the
\* constructors and destructors of a class with virtual bases take a VTT.
needsVTTParameter(GD) ==
  /\ VBases(GD.RD) # <<>>
  /\ GD.Type \in {"Ctor_Base", "Dtor_Base"}

\* GetVTTParameter: the VTT argument for a call of GD emitted inside CurGD,
\* VTT "-" (null) when GD takes none; it is the sub-VTT of the callee's class
\* inside the VTT that CurGD received (LoadCXXVTT) or inside the VTT of its
\* class.
GetVTTParameter(CurGD, GD) ==
  [VTT |-> IF ~needsVTTParameter(GD) THEN "-"
           ELSE IF needsVTTParameter(CurGD) THEN "LoadCXXVTT" ELSE "getVTT",
   RD |-> CurGD.RD, Base |-> GD.RD]

\* One emitted copy action on sub-object sub of class cls.  args are the
\* call arguments in order, each with the value it passes; count is the
\* number of elements an emitted loop runs over.
CopyEv(op, sub, cls, how, args, count) ==
  [op |-> op, sub |-> sub, cls |-> cls, how |-> how, args |-> args,
   count |-> count]

Arg(name, value) == [name |-> name, value |-> value]

\* The address of sub-object sub of the object a copy operation works on:
\* for a base (ClassDecl given) the GetAddressOfBaseClass adjustment, for a
\* field (ClassDecl null, "-") the field's lvalue.
SubObjectAddress(ClassDecl, BaseClassDecl, sub) ==
  IF ClassDecl # "-"
  THEN [GetAddressOfBaseClass |-> BaseClassAdjustment(ClassDecl, BaseClassDecl)]
  ELSE [EmitLValueForField |-> sub]

\* A memberwise copy that calls the complete-object constructor for bases
\* too and never passes a VTT.
EmitClassMemberwiseCopy_Complete(CurGD, ClassDecl, BaseClassDecl, sub) ==
  LET At == SubObjectAddress(ClassDecl, BaseClassDecl, sub)
  IN IF hasTrivialCopyConstructor(BaseClassDecl)
     THEN <<CopyEv("copy", sub, BaseClassDecl, "EmitAggregateCopy",
                   <<Arg("Dest", At), Arg("Src", At)>>, 1)>>
     ELSE <<CopyEv("call", sub, BaseClassDecl, "Ctor_Complete",
                   <<Arg("Dest", At), Arg("Src", At)>>, 1)>>

\* EmitClassMemberwiseCopy: the copy of one base (ClassDecl given) or one
\* field (ClassDecl null, "-") of class BaseClassDecl.
EmitClassMemberwiseCopy(CurGD, ClassDecl, BaseClassDecl, sub) ==
  LET CtorType == IF ClassDecl # "-" THEN "Ctor_Base" ELSE "Ctor_Complete"
      At == SubObjectAddress(ClassDecl, BaseClassDecl, sub)
      VTT == GetVTTParameter(CurGD, GlobalDecl(BaseClassDecl, CtorType))
  IN IF hasTrivialCopyConstructor(BaseClassDecl)
     THEN <<CopyEv("copy", sub, BaseClassDecl, "EmitAggregateCopy",
                   <<Arg("Dest", At), Arg("Src", At)>>, 1)>>
     ELSE <<CopyEv("call", sub, BaseClassDecl, CtorType,
                   <<Arg("Dest", At)>>
                   \o (IF VTT.VTT # "-" THEN <<Arg("VTT", VTT)>> ELSE <<>>)
                   \o <<Arg("Src", At)>>, 1)>>

\* EmitClassAggrMemberwiseCopy: the loop that copies the elements of an
\* array field of class BaseClassDecl.
EmitClassAggrMemberwiseCopy(Field, BaseClassDecl) ==
  <<CopyEv("loop", Field.name, BaseClassDecl,
           IF hasTrivialCopyConstructor(BaseClassDecl)
           THEN "EmitAggregateCopy" ELSE "Ctor_Complete",
           <<Arg("Dest", [destaddress |-> Field.name]),
             Arg("Src", [srcaddress |-> Field.name])>>,
           Field.count)>>

\* The copy of a field that is neither of class type nor an array of class
\* type: a scalar load and store, a complex load and store, or an aggregate
\* copy.
EmitBuiltinFieldCopy(Field) ==
  IF ~hasAggregateLLVMType(Field.kind)
  THEN <<CopyEv("copy", Field.name, "-", "EmitStoreThroughLValue",
                <<Arg("Dest", [EmitLValueForField |-> Field.name]),
                  Arg("Src", [EmitLValueForField |-> Field.name])>>, 1)>>
  ELSE IF Field.kind = "complex"
  THEN <<CopyEv("copy", Field.name, "-", "StoreComplexToAddr",
                <<Arg("Dest", [EmitLValueForField |-> Field.name]),
                  Arg("Src", [EmitLValueForField |-> Field.name])>>, 1)>>
  ELSE <<CopyEv("copy", Field.name, "-", "EmitAggregateCopy",
                <<Arg("Dest", [EmitLValueForField |-> Field.name]),
                  Arg("Src", [EmitLValueForField |-> Field.name])>>, 1)>>

\* The vtable-pointer stores of InitializeVtablePtrs as copy actions.
VtableStores(ClassDecl) ==
  LET st == InitializeVtablePtrs(ClassDecl)
  IN [i \in 1..Len(st) |->
        CopyEv("store", st[i].sub, st[i].cls, st[i].how,
               <<Arg("VtableField", [Offset |-> st[i].off])>>, 1)]

\* A body that copies the fields before the bases.
SynthesizeCXXCopyConstructor_FieldsFirst(ClassDecl, Type) ==
  LET CurGD == GlobalDecl(ClassDecl, Type)
  IN Flatten([i \in 1..Len(Fields[ClassDecl]) |->
                LET Field == Fields[ClassDecl][i]
                IN IF BaseElementClass(Field) # "-"
                   THEN (IF Field.kind = "array"
                         THEN EmitClassAggrMemberwiseCopy(Field, Field.cls)
                         ELSE EmitClassMemberwiseCopy(CurGD, "-", Field.cls,
                                                      Field.name))
                   ELSE EmitBuiltinFieldCopy(Field)])
     \o Flatten([i \in 1..Len(Bases[ClassDecl]) |->
                   LET Base == Bases[ClassDecl][i]
                   IN IF Base.isVirtual THEN <<>>
                      ELSE EmitClassMemberwiseCopy(CurGD, ClassDecl,
                                                   Base.type, Base.type)])
     \o VtableStores(ClassDecl)

\* SynthesizeCXXCopyConstructor: the body of the implicit copy constructor
\* of ClassDecl in variant Type.
SynthesizeCXXCopyConstructor(ClassDecl, Type) ==
  LET CurGD == GlobalDecl(ClassDecl, Type)
  IN Flatten([i \in 1..Len(Bases[ClassDecl]) |->
                LET Base == Bases[ClassDecl][i]
                IN IF Base.isVirtual THEN <<>>
                   ELSE EmitClassMemberwiseCopy(CurGD, ClassDecl, Base.type,
                                                Base.type)])
     \o Flatten([i \in 1..Len(Fields[ClassDecl]) |->
                   LET Field == Fields[ClassDecl][i]
                   IN IF BaseElementClass(Field) # "-"
                      THEN (IF Field.kind = "array"
                            THEN EmitClassAggrMemberwiseCopy(Field, Field.cls)
                            ELSE EmitClassMemberwiseCopy(CurGD, "-", Field.cls,
                                                         Field.name))
                      ELSE EmitBuiltinFieldCopy(Field)])
     \o VtableStores(ClassDecl)

\* One step of a running copy constructor: the action ev, performed by the
\* copy constructor of the sub-object that the names in by lead to (<<>> is
\* the object being constructed).
CopyStep(ev, by) == [ev |-> ev, by |-> by]

\* The run of the implicit copy constructor of ClassDecl in variant Type on
\* the sub-object by: its body in order, each call of a copy constructor
\* that is itself implicit followed by the run of that constructor.
RECURSIVE RunCopyConstructor(_, _, _)
RunCopyConstructor(ClassDecl, Type, by) ==
  LET body == SynthesizeCXXCopyConstructor(ClassDecl, Type)
  IN Flatten([k \in 1..Len(body) |->
                <<CopyStep(body[k], by)>>
                \o (IF body[k].op = "call" /\ body[k].cls \notin UserCopyCtor
                    THEN RunCopyConstructor(body[k].cls, body[k].how,
                                            Append(by, body[k].sub))
                    ELSE <<>>)])

\* A copy assignment of one sub-object that passes a VTT and calls for bases
\* the way the copy constructor does.
EmitClassCopyAssignment_LikeCopy(ClassDecl, BaseClassDecl, sub) ==
  LET At == SubObjectAddress(ClassDecl, BaseClassDecl, sub)
      VTT == GetVTTParameter(GlobalDecl(ClassDecl, "Ctor_Complete"),
                             GlobalDecl(BaseClassDecl, "Ctor_Base"))
  IN IF hasTrivialCopyAssignment(BaseClassDecl)
     THEN <<CopyEv("copy", sub, BaseClassDecl, "EmitAggregateCopy",
                   <<Arg("Dest", At), Arg("Src", At)>>, 1)>>
     ELSE <<CopyEv("call", sub, BaseClassDecl, "operator=",
                   <<Arg("Dest", At)>>
                   \o (IF VTT.VTT # "-" THEN <<Arg("VTT", VTT)>> ELSE <<>>)
                   \o <<Arg("Src", At)>>, 1)>>

\* EmitClassCopyAssignment: the assignment of one base (ClassDecl given) or
\* one field (ClassDecl null, "-") of class BaseClassDecl.
EmitClassCopyAssignment(ClassDecl, BaseClassDecl, sub) ==
  LET At == SubObjectAddress(ClassDecl, BaseClassDecl, sub)
  IN IF hasTrivialCopyAssignment(BaseClassDecl)
     THEN <<CopyEv("copy", sub, BaseClassDecl, "EmitAggregateCopy",
                   <<Arg("Dest", At), Arg("Src", At)>>, 1)>>
     ELSE <<CopyEv("call", sub, BaseClassDecl, "operator=",
                   <<Arg("Dest", At), Arg("Src", At)>>, 1)>>

\* EmitClassAggrCopyAssignment: the loop that assigns the elements of an
\* array field of class BaseClassDecl.
EmitClassAggrCopyAssignment(Field, BaseClassDecl) ==
  <<CopyEv("loop", Field.name, BaseClassDecl,
           IF hasTrivialCopyAssignment(BaseClassDecl)
           THEN "EmitAggregateCopy" ELSE "operator=",
           <<Arg("Dest", [destaddress |-> Field.name]),
             Arg("Src", [srcaddress |-> Field.name])>>,
           Field.count)>>

\* SynthesizeCXXCopyAssignment: the body of the implicit copy assignment
\* operator of ClassDecl; it ends by storing 'this' as the return value.
SynthesizeCXXCopyAssignment(ClassDecl) ==
     Flatten([i \in 1..Len(Bases[ClassDecl]) |->
                LET Base == Bases[ClassDecl][i]
                IN IF Base.isVirtual THEN <<>>
                   ELSE EmitClassCopyAssignment(ClassDecl, Base.type,
                                                Base.type)])
     \o Flatten([i \in 1..Len(Fields[ClassDecl]) |->
                   LET Field == Fields[ClassDecl][i]
                   IN IF BaseElementClass(Field) # "-"
                      THEN (IF Field.kind = "array"
                            THEN EmitClassAggrCopyAssignment(Field, Field.cls)
                            ELSE EmitClassCopyAssignment("-", Field.cls,
                                                         Field.name))
                      ELSE EmitBuiltinFieldCopy(Field)])
     \o <<CopyEv("return", "this", ClassDecl, "ReturnValue",
                 <<Arg("Value", [LoadOfThis |-> "this"])>>, 1)>>

(***************************************************************************)
(* The walk of InitializeVtablePtrs over the sub-objects of an object.     *)
(***************************************************************************)

\* Every inheritance path from Class to BaseClass, one per BaseClass
\* sub-object reached by that path.
RECURSIVE AllPaths(_, _)
AllPaths(Class, BaseClass) ==
  UNION {LET Element == [Class |-> Class, Base |-> Bases[Class][i]]
         IN (IF Bases[Class][i].type = BaseClass THEN {<<Element>>} ELSE {})
            \cup {<<Element>> \o p : p \in AllPaths(Bases[Class][i].type,
                                                    BaseClass)}
         : i \in 1..Len(Bases[Class])}

\* The paths from Class to BaseClass that cross no virtual edge.
NonVirtualPaths(Class, BaseClass) ==
  {p \in AllPaths(Class, BaseClass) : \A i \in 1..Len(p) : ~p[i].Base.isVirtual}

\* The sum, in bits, of the base offsets along the elements Path[Start+1..].
RECURSIVE SumOfBaseOffsets(_, _)
SumOfBaseOffsets(Path, Start) ==
  IF Start >= Len(Path) THEN 0
  ELSE getBaseClassOffset(Path[Start + 1].Class, Path[Start + 1].Base.type)
       + SumOfBaseOffsets(Path, Start + 1)

\* The offset, in bits, of the sub-object that Path leads to inside a
\* complete object of class ClassDecl: the sub-object lies in the virtual
\* base the last virtual edge of Path names, or in the object itself.
SubobjectOffset(ClassDecl, Path) ==
  LET lv == LastVirtual(Path, 0, [Start |-> 0, VBase |-> "-"])
  IN (IF lv.VBase = "-" THEN 0 ELSE getVBaseClassOffset(ClassDecl, lv.VBase))
     + SumOfBaseOffsets(Path, lv.Start)

\* CGVtableInfo::AddressPoints[ClassDecl][ClassDecl]: the table the vtable
\* layout fills, one address point per (class, offset) of a dynamic
\* sub-object of the complete object, the object itself included.
AddressPoints(ClassDecl) ==
  LET Keys == {<<ClassDecl, 0>>}
              \cup UNION {{<<b, SubobjectOffset(ClassDecl, p)>> :
                             p \in AllPaths(ClassDecl, b)} : b \in Classes}
  IN [key \in {k \in Keys : isDynamicClass(k[1])} |->
        [Vtable |-> ClassDecl, AddressPoint |-> key]]

\* Where a walk started: at the virtual base BaseClassDecl with its offset
\* in the complete object, or at the class itself with offset 0.
WalkStart(cls, Offset, isVirtual) ==
  [cls |-> cls, Offset |-> Offset, isVirtual |-> isVirtual]

\* One step of the walk: a call of InitializeVtablePtrsRecursive ("visit") or
\* the store it ends with ("store").  Path holds the base specifiers followed
\* from Start; VtableField is the byte offset from this that is stored to.
WalkEv(op, ClassDecl, Offset, Start, Path, value, failed) ==
  [op |-> op, cls |-> ClassDecl, Offset |-> Offset, Start |-> Start,
   Path |-> Path, VtableField |-> Offset \div 8, value |-> value,
   failed |-> failed]

NoAddressPoint == [Vtable |-> "-", AddressPoint |-> <<>>]

\* A walk that descends through virtual base specifiers too.
RECURSIVE WalkVtablePtrsRecursive_FollowVirtual(_, _, _, _, _)
WalkVtablePtrsRecursive_FollowVirtual(ClassDecl, Table, Offset, Start, Path) ==
  <<WalkEv("visit", ClassDecl, Offset, Start, Path, NoAddressPoint, FALSE)>>
  \o (IF ~isDynamicClass(ClassDecl) THEN <<>>
      ELSE Flatten([i \in 1..Len(Bases[ClassDecl]) |->
                      LET Base == Bases[ClassDecl][i]
                          NewOffset == Offset + getBaseClassOffset(ClassDecl,
                                                                   Base.type)
                      IN WalkVtablePtrsRecursive_FollowVirtual(
                           Base.type, Table, NewOffset, Start,
                           Append(Path, [Class |-> ClassDecl,
                                         Base |-> Base]))])
           \o LET key == <<ClassDecl, Offset>>
              IN IF key \in DOMAIN Table
                 THEN <<WalkEv("store", ClassDecl, Offset, Start, Path,
                               Table[key], FALSE)>>
                 ELSE <<WalkEv("store", ClassDecl, Offset, Start, Path,
                               NoAddressPoint, TRUE)>>)

\* A walk that hands its own Offset down instead of NewOffset.
RECURSIVE WalkVtablePtrsRecursive_SameOffset(_, _, _, _, _)
WalkVtablePtrsRecursive_SameOffset(ClassDecl, Table, Offset, Start, Path) ==
  <<WalkEv("visit", ClassDecl, Offset, Start, Path, NoAddressPoint, FALSE)>>
  \o (IF ~isDynamicClass(ClassDecl) THEN <<>>
      ELSE Flatten([i \in 1..Len(Bases[ClassDecl]) |->
                      LET Base == Bases[ClassDecl][i]
                      IN IF Base.isVirtual THEN <<>>
                         ELSE WalkVtablePtrsRecursive_SameOffset(
                                Base.type, Table, Offset, Start,
                                Append(Path, [Class |-> ClassDecl,
                                              Base |-> Base]))])
           \o LET key == <<ClassDecl, Offset>>
              IN IF key \in DOMAIN Table
                 THEN <<WalkEv("store", ClassDecl, Offset, Start, Path,
                               Table[key], FALSE)>>
                 ELSE <<WalkEv("store", ClassDecl, Offset, Start, Path,
                               NoAddressPoint, TRUE)>>)

\* A walk that stores the address point of a class before it descends
\* into the bases.
RECURSIVE WalkVtablePtrsRecursive_StoreFirst(_, _, _, _, _)
WalkVtablePtrsRecursive_StoreFirst(ClassDecl, Table, Offset, Start, Path) ==
  <<WalkEv("visit", ClassDecl, Offset, Start, Path, NoAddressPoint, FALSE)>>
  \o (IF ~isDynamicClass(ClassDecl) THEN <<>>
      ELSE (LET key == <<ClassDecl, Offset>>
            IN IF key \in DOMAIN Table
               THEN <<WalkEv("store", ClassDecl, Offset, Start, Path,
                             Table[key], FALSE)>>
               ELSE <<WalkEv("store", ClassDecl, Offset, Start, Path,
                             NoAddressPoint, TRUE)>>)
           \o Flatten([i \in 1..Len(Bases[ClassDecl]) |->
                         LET Base == Bases[ClassDecl][i]
                             NewOffset == Offset
                                          + getBaseClassOffset(ClassDecl,
                                                               Base.type)
                         IN IF Base.isVirtual THEN <<>>
                            ELSE WalkVtablePtrsRecursive_StoreFirst(
                                   Base.type, Table, NewOffset, Start,
                                   Append(Path, [Class |-> ClassDecl,
                                                 Base |-> Base]))]))

\* InitializeVtablePtrsRecursive(ClassDecl, Vtable, AddressPoints, ThisPtr,
\* Offset), step by step: a non-dynamic class returns at once; a dynamic one
\* recurses into each non-virtual base at NewOffset, then looks up
\* (ClassDecl, Offset) in the table (the assertion fails when the key is
\* missing) and stores the address point at ThisPtr + Offset / 8.
RECURSIVE WalkVtablePtrsRecursive(_, _, _, _, _)
WalkVtablePtrsRecursive(ClassDecl, Table, Offset, Start, Path) ==
  <<WalkEv("visit", ClassDecl, Offset, Start, Path, NoAddressPoint, FALSE)>>
  \o (IF ~isDynamicClass(ClassDecl) THEN <<>>
      ELSE Flatten([i \in 1..Len(Bases[ClassDecl]) |->
                      LET Base == Bases[ClassDecl][i]
                          NewOffset == Offset + getBaseClassOffset(ClassDecl,
                                                                   Base.type)
                      IN IF Base.isVirtual THEN <<>>
                         ELSE WalkVtablePtrsRecursive(
                                Base.type, Table, NewOffset, Start,
                                Append(Path, [Class |-> ClassDecl,
                                              Base |-> Base]))])
           \o LET key == <<ClassDecl, Offset>>
              IN IF key \in DOMAIN Table
                 THEN <<WalkEv("store", ClassDecl, Offset, Start, Path,
                               Table[key], FALSE)>>
                 ELSE <<WalkEv("store", ClassDecl, Offset, Start, Path,
                               NoAddressPoint, TRUE)>>)

\* InitializeVtablePtrs(ClassDecl), step by step: nothing for a non-dynamic
\* class; else one walk per entry of vbases_begin..vbases_end at the
\* virtual base's offset in the complete object, then the walk of the class
\* itself at offset 0.
WalkVtablePtrs(ClassDecl) ==
  IF ~isDynamicClass(ClassDecl) THEN <<>>
  ELSE LET Table == AddressPoints(ClassDecl)
       IN Flatten([i \in 1..Len(VBases(ClassDecl)) |->
                     LET BaseClassDecl == VBases(ClassDecl)[i]
                         Offset == getVBaseClassOffset(ClassDecl,
                                                       BaseClassDecl)
                     IN WalkVtablePtrsRecursive(
                          BaseClassDecl, Table, Offset,
                          WalkStart(BaseClassDecl, Offset, TRUE), <<>>)])
          \o WalkVtablePtrsRecursive(ClassDecl, Table, 0,
                                     WalkStart(ClassDecl, 0, FALSE), <<>>)

(***************************************************************************)
(* Array loops.  EmitClassAggrMemberwiseCopy, EmitClassAggrCopyAssignment, *)
(* EmitCXXAggrConstructorCall and EmitCXXAggrDestructorCall emit the same  *)
(* four blocks: for.cond loads loop.index and branches, for.body works on  *)
(* one element, for.inc stores the next index, for.end follows the loop.   *)
(***************************************************************************)

\* Largest element count of an array a loop is run on.
MaxElements == 3

\* The range of the unsigned loop index (Int64 in the copy loops, size_t in
\* the constructor and destructor loops), at the word size of the model.
SizeModulus == 2 ^ 16

AscendingLoops ==
  {"EmitClassAggrMemberwiseCopy", "EmitClassAggrCopyAssignment",
   "EmitCXXAggrConstructorCall"}

LoopKinds == AscendingLoops \cup {"EmitCXXAggrDestructorCall"}

\* The value stored to loop.index before the loop: zero, or UpperCount in
\* the destructor loop.
LoopIndexInit(kind, NumElements) ==
  IF kind = "EmitCXXAggrDestructorCall" THEN NumElements ELSE 0

LoopCondition_ULE(kind, Counter, NumElements) ==
  IF kind = "EmitCXXAggrDestructorCall" THEN Counter # 0
  ELSE Counter <= NumElements

\* for.cond: "isless" (ICmpULT Counter, NumElements), or "isne"
\* (ICmpNE Counter, 0) in the destructor loop.
LoopCondition(kind, Counter, NumElements) ==
  IF kind = "EmitCXXAggrDestructorCall" THEN Counter # 0
  ELSE Counter < NumElements

LoopElementIndex_NoSub(kind, Counter) == Counter

\* for.body: the index of the element the GEP addresses, Counter, or
\* Counter - 1 in the destructor loop.
LoopElementIndex(kind, Counter) ==
  IF kind = "EmitCXXAggrDestructorCall" THEN (Counter - 1) % SizeModulus
  ELSE Counter

\* for.body: what is done to the element of class BaseClassDecl.
LoopElementOperation(kind, BaseClassDecl) ==
  CASE kind = "EmitClassAggrMemberwiseCopy" ->
         IF hasTrivialCopyConstructor(BaseClassDecl)
         THEN "EmitAggregateCopy" ELSE "Ctor_Complete"
    [] kind = "EmitClassAggrCopyAssignment" ->
         IF hasTrivialCopyAssignment(BaseClassDecl)
         THEN "EmitAggregateCopy" ELSE "operator="
    [] kind = "EmitCXXAggrConstructorCall" -> "Ctor_Complete"
    [] kind = "EmitCXXAggrDestructorCall" -> "Dtor_Complete"

\* for.inc: "inc" (Counter + 1), or "dec" (Counter - 1) in the destructor
\* loop.
LoopNextIndex(kind, Counter) ==
  IF kind = "EmitCXXAggrDestructorCall" THEN (Counter - 1) % SizeModulus
  ELSE (Counter + 1) % SizeModulus

(***************************************************************************)
(* Run-time meaning of the emitted code.                                   *)
(***************************************************************************)
Tr(ev, cls, how, by, byHow, sub) ==
  [ev |-> ev, cls |-> cls, how |-> how, by |-> by, byHow |-> byHow,
   sub |-> sub]

Repeat(n, s) == Flatten([i \in 1..n |-> s])

\* Executing the prologue of constructor variant CtorType of class c: every
\* initializer of a class-typed sub-object calls that class's constructor,
\* the base-object variant for a base and the complete-object variant for a
\* field or an array element, which runs its own prologue in turn.
RECURSIVE RunCtor(_, _, _, _)
RunCtor(c, CtorType, inits, Exc) ==
  LET code == EmitCtorPrologue(c, inits[c], CtorType, Exc)
      Exec(e) ==
        IF e.op = "init.base"
        THEN <<Tr("ctor", e.cls, "Ctor_Base", c, CtorType, e.sub)>>
             \o RunCtor(e.cls, "Ctor_Base", inits, Exc)
        ELSE IF e.op = "init.member" /\ e.how = "agg" /\ e.cls # "-"
        THEN Repeat(FieldNamed(c, e.sub).count,
                    <<Tr("ctor", e.cls, "Ctor_Complete", c, CtorType, e.sub)>>
                    \o RunCtor(e.cls, "Ctor_Complete", inits, Exc))
        ELSE <<>>
  IN Flatten([i \in 1..Len(code) |-> Exec(code[i])])

\* Executing destructor variant DtorType of class c: the complete-object
\* variant has called the base-object variant before its epilogue runs; every
\* destructor call of an epilogue runs the called variant in turn.
RECURSIVE RunDtor(_, _)
RunDtor(c, DtorType) ==
  LET code == EmitDtorEpilogue(c, DtorType)
      Exec(e) ==
        IF e.op # "dtor" THEN <<>>
        ELSE IF e.how = "EmitCXXAggrDestructorCall"
        THEN Repeat(FieldNamed(c, e.sub).count,
                    <<Tr("dtor", e.cls, "Dtor_Complete", c, DtorType, e.sub)>>
                    \o RunDtor(e.cls, "Dtor_Complete"))
        ELSE <<Tr("dtor", e.cls, e.how, c, DtorType, e.sub)>>
             \o RunDtor(e.cls, e.how)
  IN (IF DtorType = "Dtor_Complete"
      THEN <<Tr("dtor", c, "Dtor_Base", c, DtorType, "this")>>
           \o RunDtor(c, "Dtor_Base")
      ELSE <<>>)
     \o Flatten([i \in 1..Len(code) |-> Exec(code[i])])

\* The cleanups that run when the initializer emitted at position k of the
\* prologue throws: every EHCleanupBlock registered before it, last first.
RunCleanups(code, k) ==
  Reverse(SelectSeq(SubSeq(code, 1, k - 1), LAMBDA e : e.op = "cleanup"))

(***************************************************************************)
(* Initializer lists.                                                      *)
(***************************************************************************)
RECURSIVE Orderings(_)
Orderings(S) ==
  IF S = {} THEN {<<>>}
  ELSE UNION {{<<x>> \o p : p \in Orderings(S \ {x})} : x \in S}

\* An array field may come without an initializer expression.
InitializerChoices(I) ==
  IF ~I.isBase /\ \E c \in Classes : \E i \in 1..Len(Fields[c]) :
                     Fields[c][i].name = I.target /\ Fields[c][i].kind = "array"
  THEN {I, [I EXCEPT !.hasInit = FALSE]}
  ELSE {I}

RECURSIVE ChooseEach(_)
ChooseEach(s) ==
  IF s = <<>> THEN {<<>>}
  ELSE {<<x>> \o r : x \in InitializerChoices(Head(s)), r \in ChooseEach(Tail(s))}

\* Every initializer list of a constructor of c: one initializer per base
\* sub-object and per field, in any order.
InitLists(c) ==
  UNION {{[i \in 1..Len(l) |-> l[p[i]]] : p \in Orderings(1..Len(l))} :
           l \in ChooseEach(SemaOrder(c))}

\* The classes whose constructors run when a c is constructed.
RECURSIVE Closure(_)
Closure(c) ==
  {c} \cup UNION {Closure(Bases[c][i].type) : i \in 1..Len(Bases[c])}
      \cup UNION {Closure(Fields[c][i].cls) :
                    i \in {j \in 1..Len(Fields[c]) :
                             BaseElementClass(Fields[c][j]) # "-"}}

RECURSIVE ListAssignments(_, _)
ListAssignments(cs, focus) ==
  IF cs = {} THEN {<<>>}
  ELSE LET c == CHOOSE x \in cs : TRUE
           lists == IF c \in Closure(focus) THEN InitLists(c)
                    ELSE {SemaOrder(c)}
       IN {(c :> l) @@ f : l \in lists, f \in ListAssignments(cs \ {c}, focus)}

(***************************************************************************)
(* Late-parsed default arguments (ParseDeclCXX.cpp).  A member function    *)
(* declarator carries, per parameter, the parameter's declaration and the  *)
(* cached tokens of its default argument (0 when it has none).             *)
(***************************************************************************)

\* Largest number of parameters of a declared member function.
MaxArgs == 3

\* Largest number of member functions declared in the class being parsed.
MaxMethods == 2

\* DeclaratorChunk::ParamInfo.
ParamInfo(Param, DefaultArgTokens) ==
  [Param |-> Param, DefaultArgTokens |-> DefaultArgTokens]

\* The DeclaratorChunk::FunctionTypeInfo values of a function with n
\* parameters: parameter ParamIdx (from 0) is the declaration ParamIdx, and
\* its default-argument tokens, when it has any, are the buffer ParamIdx + 1.
FunctionTypeInfos(n) ==
  {[NumArgs |-> n,
    ArgInfo |-> [i \in 1..n |-> ParamInfo(i - 1, IF d[i] THEN i ELSE 0)]] :
     d \in [1..n -> BOOLEAN]}

\* LateParsedDefaultArgument(Param, Toks = 0).
LateParsedDefaultArgument(Param, Toks) == [Param |-> Param, Toks |-> Toks]

\* LateParsedMethodDeclaration(Method).
LateParsedMethodDeclaration(Method) ==
  [Method |-> Method, TemplateScope |-> FALSE, DefaultArgs |-> <<>>]

\* LateMethod = 0.
NoLateMethod == LateParsedMethodDeclaration(0)

\* The loop of HandleMemberFunctionDefaultArgs from ParamIdx on; LateMethod
\* is the entry pushed so far (NoLateMethod while nothing is pushed).
RECURSIVE DefaultArgsLoop(_, _, _, _, _)
DefaultArgsLoop(FTI, ThisDecl, TemplateScope, ParamIdx, LateMethod) ==
  IF ~(ParamIdx < FTI.NumArgs) THEN LateMethod
  ELSE LET Info == FTI.ArgInfo[ParamIdx + 1]
       IN IF LateMethod # NoLateMethod \/ Info.DefaultArgTokens # 0
          THEN LET Pushed ==
                     IF LateMethod = NoLateMethod
                     THEN [LateParsedMethodDeclaration(ThisDecl) EXCEPT
                             !.TemplateScope = TemplateScope,
                             !.DefaultArgs =
                                [I \in 1..ParamIdx |->
                                   LateParsedDefaultArgument(Info.Param, 0)]]
                     ELSE LateMethod
               IN DefaultArgsLoop(
                    FTI, ThisDecl, TemplateScope, ParamIdx + 1,
                    [Pushed EXCEPT
                       !.DefaultArgs =
                          Append(@, LateParsedDefaultArgument(
                                      Info.Param, Info.DefaultArgTokens))])
          ELSE DefaultArgsLoop(FTI, ThisDecl, TemplateScope, ParamIdx + 1,
                               LateMethod)

\* Parser::HandleMemberFunctionDefaultArgs: getCurrentClass().MethodDecls
\* after the call.
HandleMemberFunctionDefaultArgs(Decls, FTI, ThisDecl, TemplateScope) ==
  LET LateMethod == DefaultArgsLoop(FTI, ThisDecl, TemplateScope, 0,
                                    NoLateMethod)
  IN IF LateMethod = NoLateMethod THEN Decls ELSE Append(Decls, LateMethod)

(***************************************************************************)
(* Byref helper functions (CGBlocks.cpp).  A helper function is known by   *)
(* its position in the list of generated helpers; 0 is the null pointer.   *)
(***************************************************************************)

\* Block field flags and the multiplier of the cache key.
BLOCK_FIELD_IS_OBJECT == 3
BLOCK_FIELD_IS_BLOCK == 7
BLOCK_BYREF_CURRENT_MAX == 256

\* CGF.Target.getPointerAlign(0), in bits.
PointerAlign == 64

\* The byref structure types of the __block variables of the translation
\* unit, named after the type of the variable.
ByrefTypes == {"byref.char", "byref.int", "byref.id", "byref.vec"}

\* getDeclAlignInBytes of the __block variable a byref type was built for.
getDeclAlignInBytes(T) ==
  CASE T = "byref.char" -> 1
    [] T = "byref.int"  -> 4
    [] T = "byref.id"   -> 8
    [] T = "byref.vec"  -> 16

\* The flags a byref helper is asked for.
Flags == {BLOCK_FIELD_IS_OBJECT, BLOCK_FIELD_IS_BLOCK}

\* Largest number of helper requests of one compilation.
MaxRequests == 3

\* The threads of the compiler that generate code.
NumThreads == 2

\* A cache key that leaves the alignment out.
HelperKind_FlagOnly(Flag, Align) == Flag

\* Kind: the alignment in units of the pointer alignment, mixed with the
\* flags.
HelperKind(Flag, Align) ==
  LET Collapsed == Align \div (PointerAlign \div 8)
  IN Collapsed * BLOCK_BYREF_CURRENT_MAX + Flag

Kinds ==
  {HelperKind(Flag, getDeclAlignInBytes(T)) : Flag \in Flags, T \in ByrefTypes}

\* A cache with no entry.
EmptyCache == [Kind \in Kinds |-> 0]

\* GeneratebyrefCopyHelperFunction and GeneratebyrefDestroyHelperFunction:
\* a new function that reaches the variable through a pointer to T and
\* passes flag to _Block_object_assign or _Block_object_dispose.
GeneratebyrefCopyHelperFunction(T, flag) ==
  [Name |-> "__Block_byref_id_object_copy_", T |-> T, flag |-> flag]

GeneratebyrefDestroyHelperFunction(T, flag) ==
  [Name |-> "__Block_byref_id_object_dispose_", T |-> T, flag |-> flag]

\* BuildbyrefCopyHelper on the cache Cache and the generated functions Fns:
\* the cache and the functions after the call, and the function returned.
BuildbyrefCopyHelper(Cache, Fns, T, Flag, Align) ==
  LET Kind == HelperKind(Flag, Align)
      Entry == Cache[Kind]
      Made == Append(Fns, GeneratebyrefCopyHelperFunction(T, Flag))
  IN IF Entry # 0 THEN [Cache |-> Cache, Fns |-> Fns, ret |-> Entry]
     ELSE [Cache |-> [Cache EXCEPT ![Kind] = Len(Made)], Fns |-> Made,
           ret |-> Len(Made)]

\* BuildbyrefDestroyHelper, likewise.
BuildbyrefDestroyHelper(Cache, Fns, T, Flag, Align) ==
  LET Kind == HelperKind(Flag, Align)
      Entry == Cache[Kind]
      Made == Append(Fns, GeneratebyrefDestroyHelperFunction(T, Flag))
  IN IF Entry # 0 THEN [Cache |-> Cache, Fns |-> Fns, ret |-> Entry]
     ELSE [Cache |-> [Cache EXCEPT ![Kind] = Len(Made)], Fns |-> Made,
           ret |-> Len(Made)]

(***************************************************************************)
(* The state machine: one compilation of one class.                        *)
(***************************************************************************)
VARIABLES
  ClassDecl,    \* the class whose members are being generated
  Inits,        \* per class, the initializer list of its constructor
  Exceptions,   \* CGF.Exceptions
  pc,           \* what has been generated so far
  CtorType,     \* the constructor variant of the emitted prologue
  prologue,     \* the code EmitCtorPrologue emitted
  DtorType,     \* the destructor variant of the emitted epilogue
  epilogue,     \* the code EmitDtorEpilogue emitted
  ret,          \* the last address-adjustment call and its result
  thrownAt,     \* position in the prologue of the initializer that threw
  unwind,       \* the cleanups run by that throw
  trace,        \* constructor and destructor calls of a complete lifetime
  copy,         \* the body emitted for an implicit copy operation
  loop,         \* the emitted array loop being executed
  walk,         \* the calls and stores of InitializeVtablePtrs
  MethodDecls,  \* getCurrentClass().MethodDecls
  calls,        \* the member function declarators handled so far
  AssignCache,  \* CGM.AssignCache
  DestroyCache, \* CGM.DestroyCache
  helpers,      \* the byref helper functions generated so far
  requests,     \* the byref helper requests answered so far
  UniqueAggrDestructorCount,
  names,        \* the names given to array-destructor helpers
  thread        \* per thread, the call it is in and its locals

vars == <<ClassDecl, Inits, Exceptions, pc, CtorType, prologue, DtorType,
          epilogue, ret, thrownAt, unwind, trace, copy, loop, walk,
          MethodDecls, calls, AssignCache, DestroyCache, helpers, requests,
          UniqueAggrDestructorCount, names, thread>>

\* What the actions on constructors, destructors and casts leave alone.
synthesis == <<copy, loop, walk>>

\* The parser's list of late-parsed member functions.
late == <<MethodDecls, calls>>

\* The module-wide state of the helper generators.
blocks == <<AssignCache, DestroyCache, helpers, requests,
            UniqueAggrDestructorCount, names, thread>>

NoCall ==
  [fn |-> "-", Value |-> 0, Class |-> "-", BaseClass |-> "-",
   NullCheckValue |-> FALSE, VTable |-> <<>>, mid |-> 0, failed |-> FALSE,
   result |-> 0]

NoCopy == [fn |-> "-", Type |-> "-", body |-> <<>>, run |-> <<>>]

NoLoop == [kind |-> "-", cls |-> "-", NumElements |-> 0, index |-> 0,
           block |-> "-", ops |-> <<>>]

\* A thread that is in no call.
NoThreadCall ==
  [pc |-> "idle", fn |-> "-", T |-> "-", Flag |-> 0, Kind |-> 0, Entry |-> 0,
   Fn |-> 0, Count |-> 0, ret |-> 0]

Threads == 1..NumThreads

\* No member function has been declared.
NothingParsed ==
  /\ MethodDecls = <<>>
  /\ calls = <<>>

\* No helper function has been asked for.
NoHelpers ==
  /\ AssignCache = EmptyCache
  /\ DestroyCache = EmptyCache
  /\ helpers = <<>>
  /\ requests = <<>>
  /\ UniqueAggrDestructorCount = 0
  /\ names = <<>>
  /\ thread = [t \in Threads |-> NoThreadCall]

\* No class member is being generated.
NothingEmitted ==
  /\ ClassDecl = "W"
  /\ Inits = [c \in Classes |-> SemaOrder(c)]
  /\ Exceptions = FALSE
  /\ pc = "idle"
  /\ CtorType = "-"
  /\ prologue = <<>>
  /\ DtorType = "-"
  /\ epilogue = <<>>
  /\ ret = NoCall
  /\ thrownAt = 0
  /\ unwind = <<>>
  /\ trace = <<>>
  /\ copy = NoCopy
  /\ loop = NoLoop
  /\ walk = <<>>

\* Everything of the code generator proper.
emitted == <<ClassDecl, Inits, Exceptions, pc, CtorType, prologue, DtorType,
             epilogue, ret, thrownAt, unwind, trace, copy, loop, walk>>

Init ==
  /\ ClassDecl \in Classes
  /\ Inits \in ListAssignments(Classes, ClassDecl)
  /\ Exceptions \in BOOLEAN
  /\ pc = "start"
  /\ NothingParsed
  /\ NoHelpers
  /\ CtorType = "-"
  /\ prologue = <<>>
  /\ DtorType = "-"
  /\ epilogue = <<>>
  /\ ret = NoCall
  /\ thrownAt = 0
  /\ unwind = <<>>
  /\ trace = <<>>
  /\ copy = NoCopy
  /\ loop = NoLoop
  /\ walk = <<>>

\* EmitCtorPrologue(CD, CtorType) for a constructor of ClassDecl.
DoEmitCtorPrologue ==
  /\ pc = "start"
  /\ \E t \in {"Ctor_Complete", "Ctor_Base"} :
       /\ CtorType' = t
       /\ prologue' = EmitCtorPrologue(ClassDecl, Inits[ClassDecl], t,
                                       Exceptions)
  /\ pc' = "ctor"
  /\ UNCHANGED <<ClassDecl, Inits, Exceptions, DtorType, epilogue, ret,
                 thrownAt, unwind, trace, synthesis,
                 late, blocks>>

\* EmitDtorEpilogue(DD, DtorType) for the destructor of ClassDecl, alone or
\* after the constructor prologue.
DoEmitDtorEpilogue ==
  /\ pc \in {"start", "ctor"}
  /\ ~hasTrivialDestructor(ClassDecl)
  /\ \E t \in {"Dtor_Deleting", "Dtor_Complete", "Dtor_Base"} :
       /\ DtorType' = t
       /\ epilogue' = EmitDtorEpilogue(ClassDecl, t)
  /\ pc' = "dtor"
  /\ UNCHANGED <<ClassDecl, Inits, Exceptions, CtorType, prologue, ret,
                 thrownAt, unwind, trace, synthesis,
                 late, blocks>>

\* An initializer of the emitted prologue throws at run time.
ThrowInInitializer ==
  /\ pc = "ctor"
  /\ \E k \in 1..Len(prologue) :
       /\ prologue[k].op \in {"init.base", "init.member"}
       /\ thrownAt' = k
       /\ unwind' = RunCleanups(prologue, k)
  /\ pc' = "thrown"
  /\ UNCHANGED <<ClassDecl, Inits, Exceptions, CtorType, prologue, DtorType,
                 epilogue, ret, trace, synthesis,
                 late, blocks>>

\* A complete object of ClassDecl is constructed and then destroyed.
ConstructThenDestroy ==
  /\ pc = "start"
  /\ ~hasTrivialDestructor(ClassDecl)
  /\ trace' = RunCtor(ClassDecl, "Ctor_Complete", Inits, Exceptions)
              \o <<Tr("end.of.construction", ClassDecl, "-", "-", "-", "-")>>
              \o RunDtor(ClassDecl, "Dtor_Complete")
  /\ pc' = "ran"
  /\ UNCHANGED <<ClassDecl, Inits, Exceptions, CtorType, prologue, DtorType,
                 epilogue, ret, thrownAt, unwind, synthesis,
                 late, blocks>>

\* GetAddressOfBaseClass(Value, ClassDecl, BaseClass, NullCheckValue) is
\* emitted and run on an object whose vtable holds any virtual-base offsets.
DoGetAddressOfBaseClass ==
  /\ pc = "start"
  /\ \E Value \in 0..MaxPtr, BaseClass \in Classes, NullCheckValue \in BOOLEAN,
        VTable \in [Range(VBases(ClassDecl)) -> 0..MaxVBaseOffset] :
       /\ BaseClass = ClassDecl \/ FrontPath(ClassDecl, BaseClass) # <<>>
       /\ ret' = [fn |-> "GetAddressOfBaseClass", Value |-> Value,
                  Class |-> ClassDecl, BaseClass |-> BaseClass,
                  NullCheckValue |-> NullCheckValue,
                  VTable |-> VTable, mid |-> 0, failed |-> FALSE,
                  result |-> GetAddressOfBaseClass(Value, ClassDecl, BaseClass,
                                                   NullCheckValue, VTable)]
  /\ pc' = "addr"
  /\ UNCHANGED <<ClassDecl, Inits, Exceptions, CtorType, prologue, DtorType,
                 epilogue, thrownAt, unwind, trace, synthesis,
                 late, blocks>>

Next ==
  \/ DoEmitCtorPrologue
  \/ DoEmitDtorEpilogue
  \/ ThrowInInitializer
  \/ ConstructThenDestroy
  \/ DoGetAddressOfBaseClass

Spec == Init /\ [][Next]_vars

(***************************************************************************)
(* Casts, implicit copy operations and array loops, for constructors whose *)
(* initializer lists are the ones Sema builds.                             *)
(***************************************************************************)
InitOps ==
  /\ ClassDecl \in Classes
  /\ Inits = [c \in Classes |-> SemaOrder(c)]
  /\ Exceptions \in BOOLEAN
  /\ pc = "start"
  /\ NothingParsed
  /\ NoHelpers
  /\ CtorType = "-"
  /\ prologue = <<>>
  /\ DtorType = "-"
  /\ epilogue = <<>>
  /\ ret = NoCall
  /\ thrownAt = 0
  /\ unwind = <<>>
  /\ trace = <<>>
  /\ copy = NoCopy
  /\ loop = NoLoop
  /\ walk = <<>>

\* The pointers to a Class sub-object of an object of class ClassDecl that a
\* base-to-derived cast may be handed: null, or the sub-object of an object
\* at a non-null address.
BasePointers(Class) ==
  LET Path == FrontPath(ClassDecl, Class)
      Offset == IF SeesVirtualBase(Path, 0) THEN 0
                ELSE ComputeNonVirtualBaseClassOffset(Path, 0)
  IN {0} \cup {Offset + p : p \in 1..MaxPtr}

\* GetAddressOfDerivedClass(Value, Class, ClassDecl, NullCheckValue) is
\* emitted and run.
DoGetAddressOfDerivedClass ==
  /\ pc = "start"
  /\ \E Class \in Classes, NullCheckValue \in BOOLEAN :
       /\ Class = ClassDecl \/ FrontPath(ClassDecl, Class) # <<>>
       /\ \E Value \in BasePointers(Class) :
            LET r == GetAddressOfDerivedClass(Value, Class, ClassDecl,
                                              NullCheckValue)
            IN ret' = [fn |-> "GetAddressOfDerivedClass", Value |-> Value,
                       Class |-> ClassDecl, BaseClass |-> Class,
                       NullCheckValue |-> NullCheckValue, VTable |-> <<>>,
                       mid |-> 0, failed |-> r.failed, result |-> r.result]
  /\ pc' = "addr"
  /\ UNCHANGED <<ClassDecl, Inits, Exceptions, CtorType, prologue, DtorType,
                 epilogue, thrownAt, unwind, trace, synthesis,
                 late, blocks>>

\* A pointer to a ClassDecl object is converted to a pointer to its base
\* BaseClass and back.
DoRoundTrip ==
  /\ pc = "start"
  /\ \E Value \in 0..MaxPtr, BaseClass \in Classes, NullCheckValue \in BOOLEAN,
        VTable \in [Range(VBases(ClassDecl)) -> 0..MaxVBaseOffset] :
       /\ BaseClass = ClassDecl \/ FrontPath(ClassDecl, BaseClass) # <<>>
       /\ LET mid == GetAddressOfBaseClass(Value, ClassDecl, BaseClass,
                                           NullCheckValue, VTable)
              r == GetAddressOfDerivedClass(mid, BaseClass, ClassDecl,
                                            NullCheckValue)
          IN ret' = [fn |-> "RoundTrip", Value |-> Value, Class |-> ClassDecl,
                     BaseClass |-> BaseClass,
                     NullCheckValue |-> NullCheckValue, VTable |-> VTable,
                     mid |-> mid, failed |-> r.failed, result |-> r.result]
  /\ pc' = "addr"
  /\ UNCHANGED <<ClassDecl, Inits, Exceptions, CtorType, prologue, DtorType,
                 epilogue, thrownAt, unwind, trace, synthesis,
                 late, blocks>>

\* SynthesizeCXXCopyConstructor(Ctor, Type) for the implicit, non-trivial
\* copy constructor of ClassDecl.
DoSynthesizeCXXCopyConstructor ==
  /\ pc = "start"
  /\ ClassDecl \notin UserCopyCtor
  /\ ~hasTrivialCopyConstructor(ClassDecl)
  /\ \E Type \in {"Ctor_Complete", "Ctor_Base"} :
       copy' = [fn |-> "SynthesizeCXXCopyConstructor", Type |-> Type,
                body |-> SynthesizeCXXCopyConstructor(ClassDecl, Type),
                run |-> RunCopyConstructor(ClassDecl, Type, <<>>)]
  /\ pc' = "copy"
  /\ UNCHANGED <<ClassDecl, Inits, Exceptions, CtorType, prologue, DtorType,
                 epilogue, ret, thrownAt, unwind, trace, loop, walk,
                 late, blocks>>

\* SynthesizeCXXCopyAssignment(CD) for the implicit, non-trivial copy
\* assignment operator of ClassDecl.
DoSynthesizeCXXCopyAssignment ==
  /\ pc = "start"
  /\ ClassDecl \notin UserCopyAssign
  /\ ~hasTrivialCopyAssignment(ClassDecl)
  /\ copy' = [fn |-> "SynthesizeCXXCopyAssignment", Type |-> "-",
              body |-> SynthesizeCXXCopyAssignment(ClassDecl), run |-> <<>>]
  /\ pc' = "copy"
  /\ UNCHANGED <<ClassDecl, Inits, Exceptions, CtorType, prologue, DtorType,
                 epilogue, ret, thrownAt, unwind, trace, loop, walk,
                 late, blocks>>

\* One of the four array loops is emitted for an array of NumElements
\* elements of class ClassDecl and entered: the initial index is stored to
\* loop.index and control falls into for.cond.  The destructor loop is
\* emitted for classes with a non-trivial destructor only, the constructor
\* loop for a constructor its caller found non-trivial.
EmitArrayLoop ==
  /\ pc = "start"
  /\ \E kind \in LoopKinds, NumElements \in 0..MaxElements :
       /\ kind = "EmitCXXAggrDestructorCall" =>
            ~hasTrivialDestructor(ClassDecl)
       /\ loop' = [kind |-> kind, cls |-> ClassDecl,
                   NumElements |-> NumElements,
                   index |-> LoopIndexInit(kind, NumElements),
                   block |-> "for.cond", ops |-> <<>>]
  /\ pc' = "loop"
  /\ UNCHANGED <<ClassDecl, Inits, Exceptions, CtorType, prologue, DtorType,
                 epilogue, ret, thrownAt, unwind, trace, copy,
                 walk,
                 late, blocks>>

\* for.cond: load loop.index, compare, branch to for.body or for.end.
ForCond ==
  /\ pc = "loop"
  /\ loop.block = "for.cond"
  /\ loop' = [loop EXCEPT !.block =
                IF LoopCondition(loop.kind, loop.index, loop.NumElements)
                THEN "for.body" ELSE "for.end"]
  /\ UNCHANGED <<ClassDecl, Inits, Exceptions, pc, CtorType, prologue,
                 DtorType, epilogue, ret, thrownAt, unwind, trace, copy,
                 walk,
                 late, blocks>>

\* for.body: load loop.index, address the element, copy, assign, construct
\* or destroy it, fall into for.inc.
ForBody ==
  /\ pc = "loop"
  /\ loop.block = "for.body"
  /\ loop' = [loop EXCEPT
                !.ops = Append(@, [how |-> LoopElementOperation(loop.kind,
                                                               loop.cls),
                                   index |-> LoopElementIndex(loop.kind,
                                                              loop.index)]),
                !.block = "for.inc"]
  /\ UNCHANGED <<ClassDecl, Inits, Exceptions, pc, CtorType, prologue,
                 DtorType, epilogue, ret, thrownAt, unwind, trace, copy,
                 walk,
                 late, blocks>>

\* for.inc: load loop.index, store the next index, branch to for.cond.
ForInc ==
  /\ pc = "loop"
  /\ loop.block = "for.inc"
  /\ loop' = [loop EXCEPT !.index = LoopNextIndex(loop.kind, @),
                          !.block = "for.cond"]
  /\ UNCHANGED <<ClassDecl, Inits, Exceptions, pc, CtorType, prologue,
                 DtorType, epilogue, ret, thrownAt, unwind, trace, copy,
                 walk,
                 late, blocks>>

\* InitializeVtablePtrs(ClassDecl) is emitted, as at the end of a
\* constructor prologue or of a synthesized copy constructor.
DoInitializeVtablePtrs ==
  /\ pc = "start"
  /\ walk' = WalkVtablePtrs(ClassDecl)
  /\ pc' = "vtable"
  /\ UNCHANGED <<ClassDecl, Inits, Exceptions, CtorType, prologue, DtorType,
                 epilogue, ret, thrownAt, unwind, trace, copy, loop,
                 late, blocks>>

NextOps ==
  \/ DoGetAddressOfBaseClass
  \/ DoGetAddressOfDerivedClass
  \/ DoRoundTrip
  \/ DoSynthesizeCXXCopyConstructor
  \/ DoSynthesizeCXXCopyAssignment
  \/ DoInitializeVtablePtrs
  \/ EmitArrayLoop
  \/ ForCond
  \/ ForBody
  \/ ForInc

SpecOps == InitOps /\ [][NextOps]_vars

\* The emitted loop is run to its end: a block that is entered is left.
SpecRun == SpecOps /\ WF_vars(ForCond) /\ WF_vars(ForBody) /\ WF_vars(ForInc)

(***************************************************************************)
(* The parser declares the member functions of one class.                  *)
(***************************************************************************)
InitParser ==
  /\ NothingEmitted
  /\ NothingParsed
  /\ NoHelpers

\* HandleMemberFunctionDefaultArgs(DeclaratorInfo, ThisDecl) for the next
\* member function of the class; ThisDecl is the number of the declaration.
DoHandleMemberFunctionDefaultArgs ==
  /\ Len(calls) < MaxMethods
  /\ \E n \in 0..MaxArgs, TemplateScope \in BOOLEAN :
       \E FTI \in FunctionTypeInfos(n) :
         LET ThisDecl == Len(calls) + 1
         IN /\ MethodDecls' = HandleMemberFunctionDefaultArgs(
                                MethodDecls, FTI, ThisDecl, TemplateScope)
            /\ calls' = Append(calls, [FTI |-> FTI, ThisDecl |-> ThisDecl,
                                       TemplateScope |-> TemplateScope])
  /\ UNCHANGED <<emitted, blocks>>

NextParser == DoHandleMemberFunctionDefaultArgs

SpecParser == InitParser /\ [][NextParser]_vars

(***************************************************************************)
(* One thread asks for byref helpers, one request after the other.         *)
(***************************************************************************)
InitBlocks ==
  /\ NothingEmitted
  /\ NothingParsed
  /\ NoHelpers

Request(fn, T, Flag, Align, r) ==
  [fn |-> fn, T |-> T, Flag |-> Flag, Align |-> Align, ret |-> r]

DoBuildbyrefCopyHelper ==
  /\ Len(requests) < MaxRequests
  /\ \E T \in ByrefTypes, Flag \in Flags :
       LET Align == getDeclAlignInBytes(T)
           r == BuildbyrefCopyHelper(AssignCache, helpers, T, Flag, Align)
       IN /\ AssignCache' = r.Cache
          /\ helpers' = r.Fns
          /\ requests' = Append(requests,
                                Request("BuildbyrefCopyHelper", T, Flag, Align,
                                        r.ret))
  /\ UNCHANGED <<emitted, late, DestroyCache, UniqueAggrDestructorCount,
                 names, thread>>

DoBuildbyrefDestroyHelper ==
  /\ Len(requests) < MaxRequests
  /\ \E T \in ByrefTypes, Flag \in Flags :
       LET Align == getDeclAlignInBytes(T)
           r == BuildbyrefDestroyHelper(DestroyCache, helpers, T, Flag, Align)
       IN /\ DestroyCache' = r.Cache
          /\ helpers' = r.Fns
          /\ requests' = Append(requests,
                                Request("BuildbyrefDestroyHelper", T, Flag,
                                        Align, r.ret))
  /\ UNCHANGED <<emitted, late, AssignCache, UniqueAggrDestructorCount,
                 names, thread>>

NextBlocks ==
  \/ DoBuildbyrefCopyHelper
  \/ DoBuildbyrefDestroyHelper

SpecBlocks == InitBlocks /\ [][NextBlocks]_vars

(***************************************************************************)
(* Several threads generate code into one module.  Nothing in the code     *)
(* orders their accesses to the caches and to the counter, so a call is    *)
(* run step by step: the read of the cache entry, the generation of the    *)
(* function and the write of the entry are separate steps, and so are the  *)
(* read and the write of the increment.                                    *)
(***************************************************************************)
InitThreads ==
  /\ NothingEmitted
  /\ NothingParsed
  /\ NoHelpers

\* The cache a builder works on.
CacheOf(fn) ==
  IF fn = "BuildbyrefCopyHelper" THEN AssignCache ELSE DestroyCache

\* Thread t enters BuildbyrefCopyHelper or BuildbyrefDestroyHelper for a
\* variable of its own class and computes Kind.
CallBuildbyrefHelper(t) ==
  /\ thread[t].pc = "idle"
  /\ \E fn \in {"BuildbyrefCopyHelper", "BuildbyrefDestroyHelper"},
        T \in ByrefTypes, Flag \in Flags :
       /\ \A u \in Threads \ {t} : thread[u].T # T
       /\ thread' = [thread EXCEPT
                       ![t] = [NoThreadCall EXCEPT
                                 !.pc = "lookup", !.fn = fn, !.T = T,
                                 !.Flag = Flag,
                                 !.Kind = HelperKind(Flag,
                                                     getDeclAlignInBytes(T))]]
  /\ UNCHANGED <<emitted, late, AssignCache, DestroyCache, helpers, requests,
                 UniqueAggrDestructorCount, names>>

\* Entry = Cache[Kind]; if (Entry) return Entry.
LookupEntry(t) ==
  /\ thread[t].pc = "lookup"
  /\ LET Entry == CacheOf(thread[t].fn)[thread[t].Kind]
     IN thread' = [thread EXCEPT
                     ![t] = IF Entry # 0
                            THEN [@ EXCEPT !.Entry = Entry, !.ret = Entry,
                                           !.pc = "done"]
                            ELSE [@ EXCEPT !.pc = "generate"]]
  /\ UNCHANGED <<emitted, late, AssignCache, DestroyCache, helpers, requests,
                 UniqueAggrDestructorCount, names>>

\* CodeGenFunction(CGM).Generatebyref...HelperFunction(T, Flag).
GenerateHelper(t) ==
  /\ thread[t].pc = "generate"
  /\ helpers' = Append(helpers,
                       IF thread[t].fn = "BuildbyrefCopyHelper"
                       THEN GeneratebyrefCopyHelperFunction(thread[t].T,
                                                            thread[t].Flag)
                       ELSE GeneratebyrefDestroyHelperFunction(thread[t].T,
                                                               thread[t].Flag))
  /\ thread' = [thread EXCEPT ![t] = [@ EXCEPT !.Fn = Len(helpers) + 1,
                                               !.pc = "assign"]]
  /\ UNCHANGED <<emitted, late, AssignCache, DestroyCache, requests,
                 UniqueAggrDestructorCount, names>>

\* return Entry = <the generated function>.
AssignEntry(t) ==
  /\ thread[t].pc = "assign"
  /\ IF thread[t].fn = "BuildbyrefCopyHelper"
     THEN /\ AssignCache' = [AssignCache EXCEPT
                               ![thread[t].Kind] = thread[t].Fn]
          /\ UNCHANGED DestroyCache
     ELSE /\ DestroyCache' = [DestroyCache EXCEPT
                                ![thread[t].Kind] = thread[t].Fn]
          /\ UNCHANGED AssignCache
  /\ thread' = [thread EXCEPT ![t] = [@ EXCEPT !.ret = thread[t].Fn,
                                               !.pc = "done"]]
  /\ UNCHANGED <<emitted, late, helpers, requests, UniqueAggrDestructorCount,
                 names>>

\* Thread t enters GenerateCXXAggrDestructorHelper and reads the counter
\* for ++UniqueAggrDestructorCount.
LoadUniqueAggrDestructorCount(t) ==
  /\ thread[t].pc = "idle"
  /\ thread' = [thread EXCEPT
                  ![t] = [NoThreadCall EXCEPT
                            !.pc = "increment",
                            !.fn = "GenerateCXXAggrDestructorHelper",
                            !.Count = UniqueAggrDestructorCount]]
  /\ UNCHANGED <<emitted, late, AssignCache, DestroyCache, helpers, requests,
                 UniqueAggrDestructorCount, names>>

\* It writes the incremented value back and names the helper "__tcf_<n>".
StoreUniqueAggrDestructorCount(t) ==
  /\ thread[t].pc = "increment"
  /\ UniqueAggrDestructorCount' = thread[t].Count + 1
  /\ names' = Append(names, thread[t].Count + 1)
  /\ thread' = [thread EXCEPT ![t] = [@ EXCEPT !.ret = thread[t].Count + 1,
                                               !.pc = "done"]]
  /\ UNCHANGED <<emitted, late, AssignCache, DestroyCache, helpers, requests>>

NextThreads ==
  \/ \E t \in Threads : CallBuildbyrefHelper(t)
  \/ \E t \in Threads : LookupEntry(t)
  \/ \E t \in Threads : GenerateHelper(t)
  \/ \E t \in Threads : AssignEntry(t)
  \/ \E t \in Threads : LoadUniqueAggrDestructorCount(t)
  \/ \E t \in Threads : StoreUniqueAggrDestructorCount(t)

SpecThreads == InitThreads /\ [][NextThreads]_vars

(***************************************************************************)
(* Properties.                                                             *)
(***************************************************************************)
Positions(code, ops) == {i \in 1..Len(code) : code[i].op \in ops}

SubsOf(code, ops) ==
  LET sel == SelectSeq(code, LAMBDA e : e.op \in ops)
  IN [i \in 1..Len(sel) |-> sel[i].sub]

ListIndex(l, target) == CHOOSE i \in 1..Len(l) : l[i].target = target

\* C1: in every emitted constructor prologue, whatever the interleaving of
\* base and member initializers in the list, there is exactly one
\* vtable-pointer installation, every base initializer (and its cleanup) is
\* emitted before it, and every member initializer is emitted after it and
\* after all of its stores.
C1_BaseVtableMember ==
  CtorType # "-" =>
    /\ Cardinality(Positions(prologue, {"vtable"})) = 1
    /\ \A i \in Positions(prologue, {"init.base"}) :
         \A j \in Positions(prologue, {"vtable", "store"}) : i < j
    /\ \A j \in Positions(prologue, {"vtable", "store"}) :
         \A k \in Positions(prologue, {"init.member"}) : j < k

\* A prologue with a base initializer, vtable stores and a member
\* initializer, emitted from a list that names a member before a base.
C1_Witness ==
  /\ CtorType # "-"
  /\ Positions(prologue, {"init.base"}) # {}
  /\ Positions(prologue, {"store"}) # {}
  /\ Positions(prologue, {"init.member"}) # {}
  /\ \E i, j \in 1..Len(Inits[ClassDecl]) :
       /\ i < j
       /\ ~Inits[ClassDecl][i].isBase
       /\ Inits[ClassDecl][j].isBase
       /\ Inits[ClassDecl][j].target \in Range(SubsOf(prologue, {"init.base"}))

\* The sub-objects with a non-trivial destructor that a prologue initializes,
\* in the order of their initialization.
ConstructionSequence(code) ==
  SubsOf(SelectSeq(code, LAMBDA e : /\ e.cls # "-"
                                    /\ ~hasTrivialDestructor(e.cls)),
         {"init.base", "init.member"})

DestructionSequence(code) == SubsOf(code, {"dtor"})

\* Direct non-virtual bases in base-specifier order, then fields in
\* declaration order, keeping the sub-objects with a non-trivial destructor.
DeclaredSequence(c) ==
  LET b == SelectSeq(DirectNonVirtualBases(c),
                     LAMBDA BS : ~hasTrivialDestructor(BS.type))
      f == SelectSeq(Fields[c],
                     LAMBDA F : /\ BaseElementClass(F) # "-"
                                /\ ~hasTrivialDestructor(BaseElementClass(F)))
  IN [i \in 1..Len(b) |-> b[i].type] \o [i \in 1..Len(f) |-> f[i].name]

\* The list names its base initializers in declaration order (virtual bases,
\* then the base-specifier list) and its member initializers in field
\* declaration order; bases and members may interleave.
InDeclarationOrder(l, c) ==
  \A i, j \in 1..Len(l) :
    (i < j /\ l[i].isBase = l[j].isBase) =>
      ListIndex(SemaOrder(c), l[i].target) <= ListIndex(SemaOrder(c), l[j].target)

ConstructedThenDestroyed ==
  /\ pc = "dtor"
  /\ CtorType # "-"
  /\ DtorType = "Dtor_Base"
  /\ VBases(ClassDecl) = <<>>

C3_BaseEpilogue ==
  DtorType = "Dtor_Base" =>
    LET c == ClassDecl
        F == {i \in 1..Len(Fields[c]) :
                /\ Fields[c][i].kind \in {"record", "array"}
                /\ ~hasTrivialDestructor(Fields[c][i].cls)}
        B == {i \in 1..Len(Bases[c]) :
                /\ ~Bases[c][i].isVirtual
                /\ ~hasTrivialDestructor(Bases[c][i].type)}
        At(sub) == {k \in 1..Len(epilogue) : epilogue[k].sub = sub}
        Only(sub) == CHOOSE k \in At(sub) : TRUE
    IN /\ Len(epilogue) = Cardinality(F) + Cardinality(B)
       /\ \A k \in 1..Len(epilogue) : epilogue[k].op = "dtor"
       /\ \A i \in F :
            /\ Cardinality(At(Fields[c][i].name)) = 1
            /\ Only(Fields[c][i].name) <= Cardinality(F)
            /\ epilogue[Only(Fields[c][i].name)].cls = Fields[c][i].cls
            /\ epilogue[Only(Fields[c][i].name)].how
                 = IF Fields[c][i].kind = "array"
                   THEN "EmitCXXAggrDestructorCall" ELSE "Dtor_Complete"
       /\ \A i, j \in F :
            i < j => Only(Fields[c][i].name) > Only(Fields[c][j].name)
       /\ \A i \in B :
            /\ Cardinality(At(Bases[c][i].type)) = 1
            /\ Only(Bases[c][i].type) > Cardinality(F)
            /\ epilogue[Only(Bases[c][i].type)].how = "Dtor_Base"
            /\ Cardinality(AllPaths(c, Bases[c][i].type)) = 1 =>
                 epilogue[Only(Bases[c][i].type)].off * 8
                   = getBaseClassOffset(c, Bases[c][i].type)
       /\ \A i, j \in B :
            i < j => Only(Bases[c][i].type) > Only(Bases[c][j].type)

\* The base-object epilogue of Plain: f2 (array), f0, then P; nothing for the
\* trivially destructible field f1 and base Q.
C3_Witness ==
  /\ DtorType = "Dtor_Base"
  /\ ClassDecl = "Plain"
  /\ DestructionSequence(epilogue) = <<"f2", "f0", "P">>

\* C4: the complete-object destructor epilogue is exactly one base-object
\* destructor call per virtual base with a non-trivial destructor, at the
\* virtual base's offset in the complete object, last virtual base first; it
\* holds no call for a field or for a non-virtual base.
C4_CompleteEpilogue ==
  DtorType = "Dtor_Complete" =>
    /\ DestructionSequence(epilogue)
         = Reverse(SelectSeq(VBases(ClassDecl),
                             LAMBDA v : ~hasTrivialDestructor(v)))
    /\ \A k \in 1..Len(epilogue) :
         /\ epilogue[k].op = "dtor"
         /\ epilogue[k].how = "Dtor_Base"
         /\ epilogue[k].virt
         /\ epilogue[k].off * 8 = getVBaseClassOffset(ClassDecl, epilogue[k].sub)

\* The complete-object epilogue of Multi (virtual bases V, Q, P and a field
\* of class T): P, then V.
C4_Witness ==
  /\ DtorType = "Dtor_Complete"
  /\ ClassDecl = "Multi"
  /\ DestructionSequence(epilogue) = <<"P", "V">>

\* v is a virtual base of c that two different direct non-virtual bases of c
\* both inherit.
ThroughTwoNonVirtualBases(c, v) ==
  \E i, j \in 1..Len(Bases[c]) :
    /\ i # j
    /\ ~Bases[c][i].isVirtual /\ ~Bases[c][j].isVirtual
    /\ v \in Range(VBases(Bases[c][i].type))
    /\ v \in Range(VBases(Bases[c][j].type))

Calls(ev, cls) == {k \in 1..Len(trace) : trace[k].ev = ev /\ trace[k].cls = cls}

\* C5: when a complete object of a class is constructed and then destroyed,
\* a virtual base V shared by two non-virtual bases has its constructor
\* called exactly once, by the complete-object constructor of the class, and
\* its destructor called exactly once, by the complete-object destructor
\* epilogue of the class; no base-object variant calls either.
C5_VirtualBaseOnce ==
  pc = "ran" =>
    \A v \in Classes :
      ThroughTwoNonVirtualBases(ClassDecl, v) =>
        /\ Cardinality(Calls("ctor", v)) = 1
        /\ \A k \in Calls("ctor", v) :
             trace[k].by = ClassDecl /\ trace[k].byHow = "Ctor_Complete"
        /\ Cardinality(Calls("dtor", v)) = 1
        /\ \A k \in Calls("dtor", v) :
             trace[k].by = ClassDecl /\ trace[k].byHow = "Dtor_Complete"
        /\ \A k \in Calls("ctor", v), d \in Calls("dtor", v) : k < d

\* A Diamond constructed and destroyed, its list naming A before V.
C5_Witness ==
  /\ pc = "ran"
  /\ ClassDecl = "Diamond"
  /\ ThroughTwoNonVirtualBases(ClassDecl, "V")
  /\ ListIndex(Inits["Diamond"], "A") < ListIndex(Inits["Diamond"], "V")
  /\ Calls("ctor", "A") # {} /\ Calls("ctor", "B") # {}
  /\ Calls("dtor", "V") # {}

BaseEvents(sub) ==
  {k \in 1..Len(prologue) :
     /\ prologue[k].sub = sub
     /\ \/ prologue[k].op = "init.base"
        \/ prologue[k].op = "cleanup" /\ prologue[k].how = "Dtor_Base"}

\* C6: for a base initializer whose target is a virtual base of the class the
\* base-object constructor variant emits nothing (no initialization, no
\* cleanup); the complete-object variant emits exactly one initialization for
\* every base initializer, virtual (at the virtual-base offset) or not (at
\* the non-virtual offset), and so does the base-object variant for a
\* non-virtual base.  A base is taken for virtual as the code takes it: its
\* class is among the virtual bases of the class.
C6_BaseVariantSkipsVirtual ==
  CtorType # "-" =>
    \A i \in 1..Len(Inits[ClassDecl]) :
      LET I == Inits[ClassDecl][i]
          virtual == I.target \in Range(VBases(ClassDecl))
          at == {k \in BaseEvents(I.target) : prologue[k].op = "init.base"}
      IN I.isBase =>
           IF CtorType = "Ctor_Base" /\ virtual
           THEN BaseEvents(I.target) = {}
           ELSE /\ Cardinality(at)
                     = Cardinality({j \in 1..Len(Inits[ClassDecl]) :
                                      Inits[ClassDecl][j] = I})
                /\ \A k \in at :
                     /\ prologue[k].virt = virtual
                     /\ prologue[k].off * 8
                          = IF virtual
                            THEN getVBaseClassOffset(ClassDecl, I.target)
                            ELSE getBaseClassOffset(ClassDecl, I.target)

\* The base-object constructor of Diamond with exceptions enabled: A and B
\* are initialized, nothing is emitted for V.
C6_Witness ==
  /\ CtorType = "Ctor_Base"
  /\ Exceptions
  /\ ClassDecl = "Diamond"
  /\ BaseEvents("A") # {} /\ BaseEvents("B") # {}
  /\ BaseEvents("V") = {}

SpecifierIndex(c, b) == CHOOSE i \in 1..Len(Bases[c]) : Bases[c][i].type = b

FieldIndex(c, f) == CHOOSE i \in 1..Len(Fields[c]) : Fields[c][i].name = f

Increasing(s) == \A i, j \in 1..Len(s) : i < j => s[i] < s[j]

\* The bases of the base-specifier list, in the order of their emitted
\* initializers.
EmittedDirectBases ==
  SelectSeq(SubsOf(prologue, {"init.base"}),
            LAMBDA b : \E i \in 1..Len(Bases[ClassDecl]) :
                         Bases[ClassDecl][i].type = b)

EmittedMembers == SubsOf(prologue, {"init.member"})

\* The targets the list names, of one kind, that the variant emits.
ListedTargets(isBase) ==
  LET l == SelectSeq(Inits[ClassDecl],
                     LAMBDA I : /\ I.isBase = isBase
                                /\ ~(/\ isBase
                                     /\ CtorType = "Ctor_Base"
                                     /\ I.target \in Range(VBases(ClassDecl))))
  IN [i \in 1..Len(l) |-> l[i].target]

BaseInitPositions(virt) ==
  {k \in 1..Len(prologue) :
     prologue[k].op = "init.base" /\ prologue[k].virt = virt}

ListIndexOfEvent(l, k) ==
  LET sub == prologue[k].sub
      m == Cardinality({j \in 1..k : /\ prologue[j].op = "init.base"
                                     /\ prologue[j].sub = sub})
  IN CHOOSE i \in 1..Len(l) :
       /\ l[i].isBase /\ l[i].target = sub
       /\ Cardinality({j \in 1..i : l[j].isBase /\ l[j].target = sub}) = m

InitializedBefore(k) ==
  SubsOf(SelectSeq(SubSeq(prologue, 1, k - 1),
                   LAMBDA e : /\ e.how = "agg"
                              /\ e.cls # "-"
                              /\ ~hasTrivialDestructor(e.cls)),
         {"init.base", "init.member"})

\* C9: with exceptions enabled, when a member initializer throws, the
\* cleanups that run destroy every base and field constructed so far that
\* has a non-trivial destructor, last constructed first, and never the
\* sub-object whose initializer threw.
C9_UnwindDestroysInitialized ==
  (pc = "thrown" /\ Exceptions /\ prologue[thrownAt].op = "init.member") =>
    /\ SubsOf(unwind, {"cleanup"}) = Reverse(InitializedBefore(thrownAt))
    /\ prologue[thrownAt].sub \notin Range(SubsOf(unwind, {"cleanup"}))

RECURSIVE SumOver(_, _, _)
SumOver(f(_), lo, hi) == IF lo > hi THEN 0 ELSE f(lo) + SumOver(f, lo + 1, hi)

\* C10: for a non-null pointer GetAddressOfBaseClass yields the pointer
\* itself when Class = BaseClass, and otherwise the pointer plus the
\* non-virtual base offsets of the path elements after the last virtual one
\* plus, when the path has a virtual element, the offset the object's vtable
\* holds for the target of the last virtual element; elements before it add
\* nothing.
C10_BaseAddress ==
  (ret.fn = "GetAddressOfBaseClass" /\ ret.Value # 0) =>
    IF ret.Class = ret.BaseClass THEN ret.result = ret.Value
    ELSE LET Path == FrontPath(ret.Class, ret.BaseClass)
             virt == {i \in 1..Len(Path) : Path[i].Base.isVirtual}
             last == IF virt = {} THEN 0
                     ELSE CHOOSE i \in virt : \A j \in virt : j <= i
             step(i) == getBaseClassOffset(Path[i].Class, Path[i].Base.type)
                          \div 8
         IN ret.result
              = ret.Value + SumOver(step, last + 1, Len(Path))
                + (IF virt = {} THEN 0 ELSE ret.VTable[Path[last].Base.type])

\* Top -> W: the path crosses the virtual elements A and V and ends with the
\* non-virtual element W; the vtable holds different offsets for A and V.
C10_Witness ==
  /\ ret.fn = "GetAddressOfBaseClass"
  /\ ret.Value # 0
  /\ ret.Class = "Top" /\ ret.BaseClass = "W"
  /\ ret.VTable["A"] # ret.VTable["V"]
  /\ ret.result = ret.Value + ret.VTable["V"] + 8

\* The same base-to-derived or derived-to-base call, emitted without the
\* null check.
WithoutNullCheck ==
  IF ret.fn = "GetAddressOfBaseClass"
  THEN GetAddressOfBaseClass(ret.Value, ret.Class, ret.BaseClass, FALSE,
                             ret.VTable)
  ELSE GetAddressOfDerivedClass(ret.Value, ret.BaseClass, ret.Class,
                                FALSE).result

\* C11: a cast emitted with the null check yields null for a null pointer
\* and, for a non-null pointer, the value the same cast yields when it is
\* emitted without the null check.
C11_NullCheck ==
  (/\ ret.fn \in {"GetAddressOfBaseClass", "GetAddressOfDerivedClass"}
   /\ ret.NullCheckValue
   /\ ~ret.failed) =>
    IF ret.Value = 0 THEN ret.result = 0 ELSE ret.result = WithoutNullCheck

\* A null pointer to the Q sub-object of a Plain is cast to Plain with the
\* null check: the result is null, where the unchecked cast would subtract.
C11_Witness ==
  /\ ret.fn = "GetAddressOfDerivedClass"
  /\ ret.NullCheckValue
  /\ ret.Value = 0
  /\ ret.Class = "Plain" /\ ret.BaseClass = "Q"
  /\ ret.result = 0
  /\ WithoutNullCheck # 0

\* The path Paths.front() from Class to BaseClass crosses a virtual edge.
CrossesVirtualBase(Class, BaseClass) ==
  /\ Class # BaseClass
  /\ \E e \in Range(FrontPath(Class, BaseClass)) : e.Base.isVirtual

\* C12: when the path from the derived class to the base has no virtual
\* edge, converting a non-null pointer to the base and back yields the
\* pointer; with the null check on both casts null goes to null and back.
C12_RoundTrip ==
  (ret.fn = "RoundTrip" /\ ~CrossesVirtualBase(ret.Class, ret.BaseClass)) =>
    /\ ~ret.failed
    /\ ret.Value # 0 => ret.result = ret.Value
    /\ (ret.NullCheckValue /\ ret.Value = 0) => ret.mid = 0 /\ ret.result = 0

\* A non-null Plain pointer goes to its Q base, eight bytes further, and
\* comes back.
C12_Witness ==
  /\ ret.fn = "RoundTrip"
  /\ ret.Class = "Plain" /\ ret.BaseClass = "Q"
  /\ ret.Value # 0
  /\ ret.mid = ret.Value + 8
  /\ ret.result = ret.Value

\* C13: a base-to-derived cast whose path from the derived class to the base
\* crosses a virtual edge fails on the assertion of
\* ComputeNonVirtualBaseClassOffset and yields no adjusted pointer.
C13_VirtualEdgeFails ==
  (/\ ret.fn \in {"GetAddressOfDerivedClass", "RoundTrip"}
   /\ CrossesVirtualBase(ret.Class, ret.BaseClass)) =>
    ret.failed /\ ret.result = 0

\* A pointer to the V of a Diamond is cast to Diamond.
C13_Witness ==
  /\ ret.fn = "GetAddressOfDerivedClass"
  /\ ret.Class = "Diamond" /\ ret.BaseClass = "V"
  /\ ret.Value # 0
  /\ ret.failed

\* C14: an address adjustment between a class and a base it reaches by two
\* or more non-virtual paths fails; no offset is computed from one of the
\* paths.
C14_AmbiguousBaseFails ==
  (/\ ret.fn # "-"
   /\ Cardinality(NonVirtualPaths(ret.Class, ret.BaseClass)) >= 2) =>
    ret.failed

\* The names of the arguments of an emitted call, in order.
ArgNames(ev) == [i \in 1..Len(ev.args) |-> ev.args[i].name]

\* The copy actions a body holds for sub-object sub.
CopyActions(sub) ==
  SelectSeq(copy.body, LAMBDA ev : ev.sub = sub /\ ev.op # "store")

\* One memberwise copy of sub-object sub of class cls: a flat copy when cls
\* has a trivial copy constructor, else one call of variant how that passes
\* the destination, a VTT when that variant of cls takes one, and the source.
OneMemberwiseCopy(sub, cls, how, at) ==
  /\ Len(CopyActions(sub)) = 1
  /\ LET ev == CopyActions(sub)[1]
     IN /\ ev.cls = cls
        /\ ev.args[1].value = at /\ ev.args[Len(ev.args)].value = at
        /\ IF hasTrivialCopyConstructor(cls)
           THEN ev.op = "copy" /\ ev.how = "EmitAggregateCopy"
           ELSE /\ ev.op = "call" /\ ev.how = how
                /\ ArgNames(ev) = IF how = "Ctor_Base" /\ VBases(cls) # <<>>
                                  THEN <<"Dest", "VTT", "Src">>
                                  ELSE <<"Dest", "Src">>

\* C15: in the body of an implicit copy constructor every non-virtual direct
\* base and every field of class type gets exactly one copy action: a flat
\* aggregate copy when its class has a trivial copy constructor, otherwise
\* one copy-constructor call with the arguments destination, VTT (if the
\* called variant takes one), source; a base is copied at the address
\* GetAddressOfBaseClass yields, through the base-object variant, a field
\* through the complete-object variant.
C15_MemberwiseCopy ==
  copy.fn = "SynthesizeCXXCopyConstructor" =>
    /\ \A i \in 1..Len(Bases[ClassDecl]) :
         ~Bases[ClassDecl][i].isVirtual =>
           OneMemberwiseCopy(
             Bases[ClassDecl][i].type, Bases[ClassDecl][i].type, "Ctor_Base",
             [GetAddressOfBaseClass |->
                BaseClassAdjustment(ClassDecl, Bases[ClassDecl][i].type)])
    /\ \A i \in 1..Len(Fields[ClassDecl]) :
         Fields[ClassDecl][i].kind = "record" =>
           OneMemberwiseCopy(
             Fields[ClassDecl][i].name, Fields[ClassDecl][i].cls,
             "Ctor_Complete",
             [EmitLValueForField |-> Fields[ClassDecl][i].name])

\* The copy constructor of Diamond: its base A, which has a virtual base, is
\* copied by a base-object constructor call that passes a VTT; its field d1
\* by a complete-object constructor call that passes none.
C15_Witness ==
  /\ copy.fn = "SynthesizeCXXCopyConstructor"
  /\ ClassDecl = "Diamond"
  /\ Len(CopyActions("A")) = 1 /\ Len(CopyActions("d1")) = 1
  /\ CopyActions("A")[1].how = "Ctor_Base"
  /\ ArgNames(CopyActions("A")[1]) = <<"Dest", "VTT", "Src">>
  /\ CopyActions("d1")[1].how = "Ctor_Complete"
  /\ ArgNames(CopyActions("d1")[1]) = <<"Dest", "Src">>

\* C16: the body of an implicit copy assignment operator holds no
\* vtable-pointer store, and every assignment-operator call in it, also the
\* one an array loop makes per element, passes exactly the destination and
\* the source.
C16_AssignmentNoVTT ==
  copy.fn = "SynthesizeCXXCopyAssignment" =>
    \A k \in 1..Len(copy.body) :
      /\ copy.body[k].op # "store"
      /\ copy.body[k].how = "operator=" =>
           ArgNames(copy.body[k]) = <<"Dest", "Src">>

\* The copy assignment operator of Diamond assigns the base A, which has a
\* virtual base, by a two-argument call.
C16_Witness ==
  /\ copy.fn = "SynthesizeCXXCopyAssignment"
  /\ ClassDecl = "Diamond"
  /\ Len(CopyActions("A")) = 1
  /\ CopyActions("A")[1].op = "call"
  /\ CopyActions("A")[1].how = "operator="
  /\ VBases("A") # <<>>

\* The indices of the elements the loop has worked on, in the order of the
\* work.
LoopIndices == [i \in 1..Len(loop.ops) |-> loop.ops[i].index]

\* C17: the array copy, copy-assignment and constructor loops work on the
\* elements 0, 1, ... in ascending order; the index starts at 0, is one
\* higher after each element, lies in [0, NumElements) whenever an element
\* is worked on, and when the loop is left exactly NumElements elements have
\* been worked on (none when NumElements is 0).
C17_AscendingLoop ==
  loop.kind \in AscendingLoops =>
    /\ LoopIndices = [i \in 1..Len(loop.ops) |-> i - 1]
    /\ loop.block \in {"for.cond", "for.body", "for.end"} =>
         loop.index = Len(loop.ops)
    /\ loop.block = "for.inc" => loop.index + 1 = Len(loop.ops)
    /\ loop.block \in {"for.body", "for.inc"} =>
         loop.index \in 0..(loop.NumElements - 1)
    /\ \A i \in 1..Len(loop.ops) :
         loop.ops[i].index \in 0..(loop.NumElements - 1)
    /\ loop.block = "for.end" => Len(loop.ops) = loop.NumElements

\* A copy loop over an array of two elements has run to its end.
C17_Witness ==
  /\ loop.kind = "EmitClassAggrMemberwiseCopy"
  /\ loop.NumElements = 2
  /\ loop.block = "for.end"
  /\ LoopIndices = <<0, 1>>

\* C18: the destructor loop destroys the elements NumElements - 1, ..., 0 in
\* that order, once each, and then ends; its index is never stepped below 0;
\* for NumElements = 0 nothing is destroyed.
C18_DestroyLoop ==
  /\ [](loop.kind = "EmitCXXAggrDestructorCall" =>
          /\ LoopIndices = [i \in 1..Len(loop.ops) |-> loop.NumElements - i]
          /\ \A i \in 1..Len(loop.ops) : loop.ops[i].how = "Dtor_Complete"
          /\ loop.index \in 0..loop.NumElements
          /\ loop.block \in {"for.cond", "for.body", "for.end"} =>
               loop.index = loop.NumElements - Len(loop.ops)
          /\ loop.block = "for.inc" =>
               loop.index = loop.NumElements - Len(loop.ops) + 1
          /\ loop.block = "for.end" => Len(loop.ops) = loop.NumElements)
  /\ (loop.kind = "EmitCXXAggrDestructorCall" ~> loop.block = "for.end")

\* A destructor loop over an array of two elements has run to its end.
C18_Witness ==
  /\ loop.kind = "EmitCXXAggrDestructorCall"
  /\ loop.NumElements = 2
  /\ loop.block = "for.end"
  /\ LoopIndices = <<1, 0>>
  /\ loop.index = 0

\* The steps of the walk that satisfy Test.
WalkSteps(Test(_)) == {k \in DOMAIN walk : Test(walk[k])}

\* The starting points of the walks of InitializeVtablePtrs(ClassDecl).
WalkRoots ==
  {WalkStart(VBases(ClassDecl)[i],
             getVBaseClassOffset(ClassDecl, VBases(ClassDecl)[i]), TRUE) :
     i \in 1..Len(VBases(ClassDecl))}
  \cup {WalkStart(ClassDecl, 0, FALSE)}

C20_VtableStores ==
  pc = "vtable" =>
    /\ ~isDynamicClass(ClassDecl) => walk = <<>>
    /\ \A k \in DOMAIN walk :
         LET s == walk[k]
         IN /\ s.Start.Offset = (IF s.Start.isVirtual
                                 THEN getVBaseClassOffset(ClassDecl,
                                                          s.Start.cls)
                                 ELSE 0)
            /\ s.Offset = s.Start.Offset + SumOfBaseOffsets(s.Path, 0)
            /\ \A i \in 1..Len(s.Path) : ~s.Path[i].Base.isVirtual
            /\ s.op = "store" =>
                 /\ isDynamicClass(s.cls)
                 /\ s.VtableField * 8 = s.Offset
                 /\ ~s.failed
                 /\ <<s.cls, s.Offset>> \in DOMAIN AddressPoints(ClassDecl)
                 /\ s.value = AddressPoints(ClassDecl)[<<s.cls, s.Offset>>]
            /\ s.op = "visit" =>
                 Cardinality(WalkSteps(LAMBDA w : /\ w.op = "store"
                                                  /\ w.cls = s.cls
                                                  /\ w.Start = s.Start
                                                  /\ w.Path = s.Path))
                   = (IF isDynamicClass(s.cls) THEN 1 ELSE 0)

\* The walk for Deep: its virtual base Twice lies at bit 64 and holds P twice,
\* at bit 64 (through Mid) and at bit 128; both get their store.
C20_Witness ==
  /\ pc = "vtable"
  /\ ClassDecl = "Deep"
  /\ \E j, k \in DOMAIN walk :
       /\ walk[j].op = "store" /\ walk[j].cls = "P" /\ walk[j].Offset = 64
       /\ Len(walk[j].Path) = 2 /\ walk[j].VtableField = 8
       /\ walk[k].op = "store" /\ walk[k].cls = "P" /\ walk[k].Offset = 128
       /\ Len(walk[k].Path) = 1 /\ walk[k].VtableField = 16
       /\ walk[k].Start = WalkStart("Twice", 64, TRUE)
       /\ walk[k].value # walk[j].value

\* The positions in the body of a copy operation of the copy actions (not
\* the vtable-pointer stores) on the sub-objects named in subs.
CopyPositions(subs) ==
  {k \in 1..Len(copy.body) : copy.body[k].op # "store"
                             /\ copy.body[k].sub \in subs}

NonVirtualBaseNames(c) ==
  {Bases[c][i].type : i \in {j \in 1..Len(Bases[c]) : ~Bases[c][j].isVirtual}}

FieldNames(c) == {Fields[c][i].name : i \in 1..Len(Fields[c])}

\* The sub-objects the copy actions of the body work on, in emitted order.
CopiedSubobjects ==
  LET acts == SelectSeq(copy.body, LAMBDA ev : ev.op # "store")
  IN [k \in 1..Len(acts) |-> acts[k].sub]

\* The direct non-virtual bases in specifier order, then the fields in
\* declaration order.
BasesThenFields(c) ==
  LET nv == SelectSeq(Bases[c], LAMBDA b : ~b.isVirtual)
  IN [i \in 1..Len(nv) |-> nv[i].type]
     \o [i \in 1..Len(Fields[c]) |-> Fields[c][i].name]

\* C21: the body of an implicit copy constructor copies the direct
\* non-virtual bases in specifier order, then the fields in declaration
\* order, each once; when it runs, everything the copy constructor of a base
\* does (that base's own bases, then its fields) is done before the first
\* field of the class is copied.
C21_BasesBeforeFields ==
  copy.fn = "SynthesizeCXXCopyConstructor" =>
    /\ CopiedSubobjects = BasesThenFields(ClassDecl)
    /\ \A j, k \in DOMAIN copy.run :
         /\ copy.run[j].ev.op # "store"
         /\ copy.run[j].by # <<>>
         /\ copy.run[j].by[1] \in NonVirtualBaseNames(ClassDecl)
         /\ copy.run[k].by = <<>>
         /\ copy.run[k].ev.op # "store"
         /\ copy.run[k].ev.sub \in FieldNames(ClassDecl)
         => j < k
    /\ \A j, k \in DOMAIN copy.run :
         /\ copy.run[j].by = copy.run[k].by
         /\ copy.run[j].ev.op # "store" /\ copy.run[j].ev.sub \in Classes
         /\ copy.run[k].ev.op # "store" /\ copy.run[k].ev.sub \notin Classes
         => j < k

\* Copy-constructing a Derived : Middle : P: the copy of P (by Middle's copy
\* constructor), then Middle's field i1, then Derived's fields e1 and e2.
C21_Witness ==
  /\ copy.fn = "SynthesizeCXXCopyConstructor"
  /\ ClassDecl = "Derived"
  /\ LET acts == SelectSeq(copy.run, LAMBDA s : s.ev.op # "store")
     IN /\ [k \in 1..Len(acts) |-> acts[k].ev.sub]
             = <<"Middle", "P", "i1", "e1", "e2">>
        /\ [k \in 1..Len(acts) |-> acts[k].by]
             = <<<<>>, <<"Middle">>, <<"Middle">>, <<>>, <<>>>>

\* The positions of the vtable-pointer stores in the body of a copy
\* operation.
StorePositions == {k \in 1..Len(copy.body) : copy.body[k].op = "store"}

\* C23: in the body of an implicit copy constructor the vtable-pointer
\* stores come after every copy of a base sub-object and before every copy
\* of a field.
C23_VtableBetweenBasesAndFields ==
  copy.fn = "SynthesizeCXXCopyConstructor" =>
    /\ \A b \in CopyPositions(NonVirtualBaseNames(ClassDecl)),
          s \in StorePositions : b < s
    /\ \A s \in StorePositions,
          f \in CopyPositions(FieldNames(ClassDecl)) : s < f

\* The initialization actions the prologue holds for the field named f.
MemberInits(f) ==
  SelectSeq(prologue, LAMBDA e : e.op = "init.member" /\ e.sub = f)

\* C24: the prologue holds exactly one initialization action per member
\* initializer, chosen by the type of the field: a reference is bound, an
\* array without an initializer expression is zero-filled, a scalar is
\* stored, a complex value, a class object or another aggregate is evaluated
\* into the field.
C24_MemberInitByType ==
  pc = "ctor" =>
    \A k \in 1..Len(Inits[ClassDecl]) :
      LET I == Inits[ClassDecl][k]
          Field == FieldNamed(ClassDecl, I.target)
      IN ~I.isBase =>
           /\ Len(MemberInits(I.target)) = 1
           /\ MemberInits(I.target)[1].how =
                (CASE Field.kind = "reference" -> "bind"
                   [] Field.kind = "scalar" -> "store"
                   [] Field.kind = "complex" -> "complex"
                   [] Field.kind = "record" -> "agg"
                   [] Field.kind = "array" ->
                        IF I.hasInit THEN "agg" ELSE "zero")

\* A prologue of Kinds whose array field has no initializer expression:
\* one action of each kind.
C24_Witness ==
  /\ pc = "ctor"
  /\ ClassDecl = "Kinds"
  /\ [f \in {"r", "z", "s", "n"} |-> MemberInits(f)[1].how]
       = [f \in {"r", "z", "s", "n"} |->
            CASE f = "r" -> "bind" [] f = "z" -> "complex"
              [] f = "s" -> "store" [] f = "n" -> "zero"]

\* The targets of a sequence of initializers.
Targets(l) == [i \in 1..Len(l) |-> l[i].target]

\* The initializers of the list that the emitted variant has code for: all
\* but those of virtual bases in the base-object variant.
EmittedInitializers ==
  SelectSeq(Inits[ClassDecl],
            LAMBDA I : ~(/\ I.isBase
                         /\ CtorType = "Ctor_Base"
                         /\ I.target \in Range(VBases(ClassDecl))))

\* C26: the initialization actions of the prologue are the base
\* initializers of the list in list order followed by the member
\* initializers of the list in list order, each initializer once.
C26_StablePartition ==
  pc = "ctor" =>
    /\ SubsOf(prologue, {"init.base", "init.member"})
         = Targets(SelectSeq(EmittedInitializers, LAMBDA I : I.isBase))
           \o Targets(SelectSeq(EmittedInitializers, LAMBDA I : ~I.isBase))
    /\ CtorType = "Ctor_Complete" =>
         Len(SubsOf(prologue, {"init.base", "init.member"}))
           = Len(Inits[ClassDecl])

\* A complete-object prologue of Plain from the list f2, Q, f0, P, f1: the
\* partition is Q, P, f2, f0, f1.
C26_Witness ==
  /\ pc = "ctor"
  /\ CtorType = "Ctor_Complete"
  /\ ClassDecl = "Plain"
  /\ Targets(Inits[ClassDecl]) = <<"f2", "Q", "f0", "P", "f1">>
  /\ SubsOf(prologue, {"init.base", "init.member"})
       = <<"Q", "P", "f2", "f0", "f1">>

\* The positions of the stores of the walk into the slot at Offset.
StoresTo(Offset) ==
  {k \in DOMAIN walk : walk[k].op = "store" /\ walk[k].Offset = Offset}

\* C27: of two stores of InitializeVtablePtrs into the same vtable-pointer
\* slot the later one is for a class derived from the class of the earlier
\* one, so the slot is left with the address point of the most derived class
\* at that offset; the slot at offset 0 is left with the address point
\* (ClassDecl, 0).
C27_LastStoreMostDerived ==
  pc = "vtable" /\ isDynamicClass(ClassDecl) =>
    /\ \A j, k \in DOMAIN walk :
         /\ walk[j].op = "store" /\ walk[k].op = "store"
         /\ walk[j].Offset = walk[k].Offset
         /\ j < k
         => AllPaths(walk[k].cls, walk[j].cls) # {}
    /\ StoresTo(0) # {}
    /\ LET last == CHOOSE k \in StoresTo(0) : \A j \in StoresTo(0) : j <= k
       IN /\ walk[last].cls = ClassDecl
          /\ walk[last].value = AddressPoints(ClassDecl)[<<ClassDecl, 0>>]

\* The walk for Twice: P (inside Mid), Mid and Twice share offset 0 and are
\* stored in that order.
C27_Witness ==
  /\ pc = "vtable"
  /\ ClassDecl = "Twice"
  /\ LET at0 == SelectSeq(walk, LAMBDA w : w.op = "store" /\ w.Offset = 0)
     IN [k \in 1..Len(at0) |-> at0[k].cls] = <<"P", "Mid", "Twice">>

\* C28 as stated: every constructor variant initializes each direct
\* non-virtual base of the class as a non-virtual base, at its non-virtual
\* base offset, also when the class of that base is one of the virtual bases
\* of the class as well.
C28_DirectBaseAtNonVirtualOffset ==
  CtorType # "-" =>
    \A i \in 1..Len(DirectNonVirtualBases(ClassDecl)) :
      LET B == DirectNonVirtualBases(ClassDecl)[i].type
      IN \E k \in 1..Len(prologue) :
           /\ prologue[k].op = "init.base"
           /\ prologue[k].sub = B
           /\ ~prologue[k].virt
           /\ prologue[k].off * 8 = getBaseClassOffset(ClassDecl, B)

\* The vtable-pointer stores of an emitted code sequence, in order.
StoresOf(code) == SelectSeq(code, LAMBDA ev : ev.op = "store")

OtherVariant(t) == IF t = "Ctor_Base" THEN "Ctor_Complete" ELSE "Ctor_Base"

\* C29: the vtable-pointer stores of a constructor prologue are the same
\* sequence in the base-object and the complete-object variant, and for a
\* dynamic class they include, for every dynamic virtual base, a store at
\* the offset the virtual base has in the complete-object layout of the
\* class itself.
C29_StoresSameInBothVariants ==
  CtorType # "-" =>
    /\ StoresOf(prologue)
         = StoresOf(EmitCtorPrologue(ClassDecl, Inits[ClassDecl],
                                     OtherVariant(CtorType), Exceptions))
    /\ \A i \in 1..Len(VBases(ClassDecl)) :
         LET vb == VBases(ClassDecl)[i]
         IN isDynamicClass(vb) =>
              \E k \in 1..Len(prologue) :
                /\ prologue[k].op = "store"
                /\ prologue[k].sub = vb
                /\ prologue[k].off * 8 = getVBaseClassOffset(ClassDecl, vb)

\* The base-object constructor of Diamond stores the vtable pointer of the
\* virtual base V at byte 40, V's offset in a complete Diamond.
C29_Witness ==
  /\ CtorType = "Ctor_Base"
  /\ ClassDecl = "Diamond"
  /\ \E k \in 1..Len(prologue) :
       /\ prologue[k].op = "store"
       /\ prologue[k].sub = "V"
       /\ prologue[k].off = 40
  /\ Len(StoresOf(prologue)) = 4

\* The declarator of a handled call has a parameter with default-argument
\* tokens.
HasDefaultArgTokens(call) ==
  \E i \in 1..call.FTI.NumArgs : call.FTI.ArgInfo[i].DefaultArgTokens # 0

\* The handled calls that have one, in order.
CallsWithDefaults == SelectSeq(calls, HasDefaultArgTokens)

\* C30 as stated: the late-parsed method declarations are, in order, one per
\* handled member function that has a parameter with default-argument
\* tokens and none for the others; each has NumArgs default-argument
\* entries, and entry i holds parameter i and that parameter's tokens.
C30_OneEntryPerParameter ==
  /\ Len(MethodDecls) = Len(CallsWithDefaults)
  /\ \A k \in 1..Len(MethodDecls) :
       LET call == CallsWithDefaults[k]
           Late == MethodDecls[k]
       IN /\ Late.Method = call.ThisDecl
          /\ Len(Late.DefaultArgs) = call.FTI.NumArgs
          /\ \A i \in 1..call.FTI.NumArgs :
               /\ Late.DefaultArgs[i].Param = call.FTI.ArgInfo[i].Param
               /\ Late.DefaultArgs[i].Toks
                    = call.FTI.ArgInfo[i].DefaultArgTokens

\* Every generated helper function was returned by a request, and every
\* request returned a generated function: a request answered from the cache
\* generated nothing.
NoHelperBesidesReturned ==
  {requests[i].ret : i \in DOMAIN requests} = 1..Len(helpers)

\* C25 as stated: two requests to the same builder return the same helper
\* function exactly when they name the same byref type and the same flags,
\* and a repeated request generates no function.
C25_Original ==
  /\ NoHelperBesidesReturned
  /\ \A i, j \in DOMAIN requests :
       requests[i].fn = requests[j].fn =>
         (requests[i].ret = requests[j].ret
            <=> /\ requests[i].T = requests[j].T
                /\ requests[i].Flag = requests[j].Flag)

\* The alignment of a request in units of the pointer alignment.
AlignmentClass(r) == r.Align \div (PointerAlign \div 8)

\* C25 amended: two requests to the same builder return the same helper
\* function exactly when they have the same flags and the same alignment in
\* units of the pointer alignment, whatever their byref types; a request of
\* a kind that is cached generates no function.
C25_SameHelperPerKind ==
  /\ NoHelperBesidesReturned
  /\ \A i, j \in DOMAIN requests :
       requests[i].fn = requests[j].fn =>
         (requests[i].ret = requests[j].ret
            <=> /\ AlignmentClass(requests[i]) = AlignmentClass(requests[j])
                /\ requests[i].Flag = requests[j].Flag)

\* Copy helpers for a char, an int and an id variable with the same flags:
\* the second request gets the function generated for the first, the third
\* a new one.
C25_Witness ==
  /\ Len(requests) = 3
  /\ \A i \in 1..3 : /\ requests[i].fn = "BuildbyrefCopyHelper"
                     /\ requests[i].Flag = BLOCK_FIELD_IS_OBJECT
  /\ requests[1].T = "byref.char"
  /\ requests[2].T = "byref.int"
  /\ requests[3].T = "byref.id"
  /\ requests[1].ret = 1 /\ requests[2].ret = 1 /\ requests[3].ret = 2
  /\ Len(helpers) = 2
  /\ helpers[1].T = "byref.char"

\* Thread t is between its read of a cache entry and its write of it.
FillingEntry(t) == thread[t].pc \in {"generate", "assign"}

\* The cache kind a generated helper function belongs to.
KindOfHelper(h) == <<h.Name, HelperKind(h.flag, getDeclAlignInBytes(h.T))>>

\* C22 as stated: with threads generating code for different classes, no
\* two threads are ever filling the same cache entry or incrementing
\* UniqueAggrDestructorCount at the same time, no cache kind gets more than
\* one helper function, and no two array-destructor helpers get the same
\* "__tcf_<n>" name.
C22_ThreadSafe ==
  /\ \A t, u \in Threads :
       t # u =>
         /\ ~(/\ FillingEntry(t) /\ FillingEntry(u)
              /\ thread[t].fn = thread[u].fn
              /\ thread[t].Kind = thread[u].Kind)
         /\ ~(thread[t].pc = "increment" /\ thread[u].pc = "increment")
  /\ \A i, j \in DOMAIN helpers :
       KindOfHelper(helpers[i]) = KindOfHelper(helpers[j]) => i = j
  /\ \A i, j \in DOMAIN names : names[i] = names[j] => i = j

====
